---- MODULE Spec2Model ----
(***************************************************************************)
(* Model of the Telegram channel live-feed service (src/app.py,            *)
(* src/get_client.py): the websocket registry and its broadcast loop, the  *)
(* websocket endpoint, the NewMessage listener, the media resolver, the    *)
(* session status check and the query endpoints.                           *)
(*                                                                         *)
(* The service runs on one asyncio event loop.  Code between two awaits    *)
(* runs atomically; every await is a point where other tasks may run.      *)
(* An action below is therefore "resume from the await this task is        *)
(* parked at, with the outcome of the awaited call, and run to the next    *)
(* await".  The position of each task is its pc variable.                  *)
(***************************************************************************)
EXTENDS Integers, Sequences, FiniteSets, TLC

\* ------------------------------------------------------------------ bounds
NumWS == 2          \* websocket clients that ever connect
NumEvents == 2      \* upstream NewMessage events that ever arrive
MaxCmds == 1        \* text commands one client sends
MaxTicks == 1       \* advances of the process clock
MaxSwitch == 2      \* POST /switch-channel requests

WS == 1..NumWS
Events == 1..NumEvents

\* ------------------------------------------------- time and date formatting
\* The clock counts hours.  strftime("%Y-%m-%d") keeps the calendar day only.
HoursPerDay == 24
NoDate == -1                      \* msg.date is None
NoDay == -1                       \* the Python value None for a date string

strftime_date(d) == d \div HoursPerDay

Day0 == 6             \* a time on the day before the process starts
Day1 == 30            \* a time on the day the process starts
StartTime == 36       \* the process clock at start

\* ---------------------------------------------------------------- channels
DEFAULT_CHANNEL == 7
OtherChannel == 9
Channels == {DEFAULT_CHANNEL, OtherChannel}

\* ------------------------------------------------------ upstream messages
PushLimit == 1048576              \* 1 * 1024 * 1024
PullLimit == 5242880              \* 5 * 1024 * 1024

\* What the upstream holds for one message id.  exists: the id resolves to a
\* message; date: msg.date; text: msg.text is not empty; media: msg.media is
\* truthy; flags: the attachment properties of the message that are truthy;
\* hasFile: msg.file is not None (photos and documents have one, polls have
\* none); size: msg.file.size, which is also the length of the bytes a
\* download of the attachment returns.
Flags == {"photo", "video", "gif", "voice", "audio", "sticker", "poll", "document"}

NoMsg ==
    [exists |-> FALSE, date |-> NoDate, text |-> FALSE, media |-> FALSE,
     flags |-> {}, hasFile |-> FALSE, size |-> 0]
Text(d) ==
    [exists |-> TRUE, date |-> d, text |-> TRUE, media |-> FALSE,
     flags |-> {}, hasFile |-> FALSE, size |-> 0]
Poll(d) ==
    [exists |-> TRUE, date |-> d, text |-> FALSE, media |-> TRUE,
     flags |-> {"poll"}, hasFile |-> FALSE, size |-> 0]
Photo(n, d) ==
    [exists |-> TRUE, date |-> d, text |-> TRUE, media |-> TRUE,
     flags |-> {"photo"}, hasFile |-> TRUE, size |-> n]
Video(n, d) ==
    [exists |-> TRUE, date |-> d, text |-> FALSE, media |-> TRUE,
     flags |-> {"video", "document"}, hasFile |-> TRUE, size |-> n]
Document(n, d) ==
    [exists |-> TRUE, date |-> d, text |-> FALSE, media |-> TRUE,
     flags |-> {"document"}, hasFile |-> TRUE, size |-> n]

\* client.get_messages(channel, ids=id): the stored message, or NoMsg.
Upstream(ch, id) ==
    IF ch = DEFAULT_CHANNEL
    THEN CASE id = 1 -> Text(Day1)
           [] id = 2 -> Photo(PushLimit, Day1)
           [] id = 3 -> Video(PushLimit + 1, Day1)
           [] id = 4 -> Text(Day0)
           [] id = 5 -> Photo(PushLimit, NoDate)
           [] OTHER -> NoMsg
    ELSE CASE id = 1 -> Document(PullLimit + 1, Day1)
           [] id = 2 -> Document(PullLimit, NoDate)
           [] id = 3 -> Poll(Day1)
           [] OTHER -> NoMsg

\* client.get_messages(channel, limit, offset_id): the ids of the channel's
\* messages, newest first.
History(ch) == IF ch = DEFAULT_CHANNEL THEN <<5, 4, 3, 2, 1>> ELSE <<3, 2, 1>>

\* ------------------------------------------------------------ media resolver
detect_media_type(msg) ==
    IF "photo" \in msg.flags THEN "photo"
    ELSE IF "video" \in msg.flags THEN "video"
    ELSE IF "gif" \in msg.flags THEN "gif"
    ELSE IF "voice" \in msg.flags THEN "voice"
    ELSE IF "audio" \in msg.flags THEN "audio"
    ELSE IF "sticker" \in msg.flags THEN "sticker"
    ELSE IF "poll" \in msg.flags THEN "poll"
    ELSE IF "document" \in msg.flags THEN "file"
    ELSE "text"

\* A message as the two classifiers read it: its truthy attachment
\* properties, whether msg.file is there, msg.file.mime_type ("": none) and
\* msg.file.name ("": none).
NoMime == ""
NoName == ""
FileNames == {NoName, "a.pdf", "B.PDF", "c.Jpg", "d.xyz", "README"}
FileMimes == {NoMime, "application/x-custom"}

ClassifyInputs ==
    [flags : SUBSET Flags, hasFile : BOOLEAN, mime_type : FileMimes, name : FileNames]

PlainText == [flags |-> {}, hasFile |-> FALSE, mime_type |-> NoMime, name |-> NoName]

NotClassified == [done |-> FALSE, kind |-> "text", mime |-> NoMime]

\* Path(name).suffix.lower()
suffix_lower(name) ==
    CASE name = "a.pdf" -> ".pdf"
      [] name = "B.PDF" -> ".pdf"
      [] name = "c.Jpg" -> ".jpg"
      [] name = "d.xyz" -> ".xyz"
      [] OTHER -> ""

\* mime_map.get(ext, 'application/octet-stream')
mime_map(ext) ==
    CASE ext = ".pdf" -> "application/pdf"
      [] ext = ".doc" -> "application/msword"
      [] ext = ".docx" ->
           "application/vnd.openxmlformats-officedocument.wordprocessingml.document"
      [] ext = ".xls" -> "application/vnd.ms-excel"
      [] ext = ".xlsx" ->
           "application/vnd.openxmlformats-officedocument.spreadsheetml.sheet"
      [] ext = ".txt" -> "text/plain"
      [] ext = ".zip" -> "application/zip"
      [] ext = ".rar" -> "application/x-rar-compressed"
      [] ext = ".mp3" -> "audio/mpeg"
      [] ext = ".mp4" -> "video/mp4"
      [] ext = ".avi" -> "video/x-msvideo"
      [] ext = ".mov" -> "video/quicktime"
      [] ext = ".png" -> "image/png"
      [] ext = ".jpg" -> "image/jpeg"
      [] ext = ".jpeg" -> "image/jpeg"
      [] ext = ".gif" -> "image/gif"
      [] ext = ".webp" -> "image/webp"
      [] OTHER -> "application/octet-stream"

\* A lookup that takes the explicit MIME type only when no property matches.
get_mime_type_late(msg) ==
    IF "photo" \in msg.flags THEN "image/jpeg"
    ELSE IF msg.hasFile /\ msg.mime_type # NoMime THEN msg.mime_type
    ELSE "application/octet-stream"

get_mime_type(msg) ==
    IF msg.hasFile /\ msg.mime_type # NoMime THEN msg.mime_type
    ELSE IF "photo" \in msg.flags THEN "image/jpeg"
    ELSE IF "video" \in msg.flags THEN "video/mp4"
    ELSE IF "gif" \in msg.flags THEN "image/gif"
    ELSE IF "voice" \in msg.flags THEN "audio/ogg"
    ELSE IF "audio" \in msg.flags THEN "audio/mpeg"
    ELSE IF "sticker" \in msg.flags THEN "image/webp"
    ELSE IF "document" \in msg.flags
    THEN mime_map(IF msg.hasFile /\ msg.name # NoName
                  THEN suffix_lower(msg.name) ELSE ".bin")
    ELSE "application/octet-stream"

\* msg.file.size if msg.file else 0
FileSize(msg) == IF msg.hasFile THEN msg.size ELSE 0

\* The value get_media_data returns.  some = FALSE is Python's None;
\* inline says whether "data" holds base64 text (TRUE) or None (FALSE).
NoneDesc == [some |-> FALSE, inline |-> FALSE, file_size |-> 0, type |-> "text"]

\* A resolver without the "if not media_bytes" test.
InlineDesc_empty(msg, nbytes) ==
    [some |-> TRUE, inline |-> TRUE, file_size |-> nbytes,
     type |-> detect_media_type(msg)]

\* get_media_data, include_full_data true, after the download returned
\* nbytes bytes (0: the download returned nothing).
InlineDesc(msg, nbytes) ==
    IF nbytes = 0 THEN NoneDesc
    ELSE [some |-> TRUE, inline |-> TRUE, file_size |-> nbytes,
          type |-> detect_media_type(msg)]

\* get_media_data, include_full_data false: metadata only.
ReferenceDesc(msg) ==
    [some |-> TRUE, inline |-> FALSE, file_size |-> FileSize(msg),
     type |-> detect_media_type(msg)]

\* What client.download_media(msg.media, file=bytes) can do: return the
\* attachment's bytes, return nothing, or raise.  A poll has no bytes.
DownloadOutcomes(msg) ==
    (IF msg.hasFile /\ msg.size > 0 THEN {msg.size} ELSE {}) \cup {0, -1}

\* get_media_data after client.get_messages returned msg or raised: None,
\* the metadata, or on to the download.
AfterGetMessages(msg, include_full, raised) ==
    IF raised \/ ~msg.exists \/ ~msg.media
    THEN [next |-> "return", desc |-> NoneDesc]
    ELSE IF include_full
    THEN [next |-> "download", desc |-> NoneDesc]
    ELSE [next |-> "return", desc |-> ReferenceDesc(msg)]

\* get_media_data after client.download_media returned n bytes (0: nothing)
\* or raised (n < 0).
AfterDownload(msg, n) == IF n < 0 THEN NoneDesc ELSE InlineDesc(msg, n)

\* How the listener's log names what client.get_messages did: raised,
\* returned no message or one without media ("absent"), or returned it.
GetOutcome(msg, raised) ==
    IF raised THEN "raise" ELSE IF ~msg.exists \/ ~msg.media THEN "absent" ELSE "ok"

\* How the log names what client.download_media did: raised (n < 0),
\* returned nothing (0), or returned the bytes.
BytesOutcome(n) == IF n < 0 THEN "raise" ELSE IF n = 0 THEN "nothing" ELSE "ok"

\* The inline-inclusion decision of the listener (1 MB) and of the message
\* listing (5 MB).
include_full_push(msg) == FileSize(msg) <= PushLimit
include_full_pull(msg) == FileSize(msg) <= PullLimit

\* ------------------------------------------------------- session status
\* What the upstream client can do when asked for the current identity
\* (client.get_me()): return the user ("me"), return None ("none"), or raise
\* one of the telethon errors, or some other exception ("Exception").
MeOutcomes ==
    {"me", "none", "AuthKeyUnregisteredError", "AuthKeyDuplicatedError",
     "AuthKeyError", "SessionExpiredError", "SessionPasswordNeededError",
     "Exception"}

\* What client.is_connected() can do: answer, or raise.
ConnOutcomes == {"connected", "not_connected", "raises"}

\* isinstance(exc, cls) for the telethon error classes the handlers name:
\* AuthKeyDuplicatedError derives from AuthKeyError; the unregistered,
\* expired and password errors derive from UnauthorizedError, not from
\* AuthKeyError; everything derives from Exception.
IsInstance(exc, cls) ==
    \/ cls = "Exception"
    \/ exc = cls
    \/ exc = "AuthKeyDuplicatedError" /\ cls = "AuthKeyError"

NoUser == 0
UserId == 1

\* A status dict that carries no "requires_reconnect" key.
StatusRec_no_flag(st, auth, conn, rr, newLogin, twoFa, uid) ==
    [status |-> st, authenticated |-> auth, is_connected |-> conn,
     requires_reconnect |-> FALSE, requires_new_login |-> newLogin,
     requires_2fa |-> twoFa, user_id |-> uid]

\* The dict a status check returns.  A key the dict does not carry reads as
\* FALSE (dict.get gives None) or as NoUser.
StatusRec(st, auth, conn, rr, newLogin, twoFa, uid) ==
    [status |-> st, authenticated |-> auth, is_connected |-> conn,
     requires_reconnect |-> rr, requires_new_login |-> newLogin,
     requires_2fa |-> twoFa, user_id |-> uid]

\* app.py get_session_status(): conn is the outcome of client.is_connected(),
\* me the outcome of client.get_me() (read only when connected).
get_session_status(conn, me) ==
    IF conn = "raises"
    THEN StatusRec("fatal_error", FALSE, FALSE, TRUE, FALSE, FALSE, NoUser)
    ELSE IF conn = "not_connected"
    THEN StatusRec("disconnected", FALSE, FALSE, TRUE, FALSE, FALSE, NoUser)
    ELSE IF me \in {"me", "none"}
    THEN StatusRec("active", me = "me", TRUE, FALSE, FALSE, FALSE,
                   IF me = "me" THEN UserId ELSE NoUser)
    ELSE IF IsInstance(me, "AuthKeyUnregisteredError")
    THEN StatusRec("expired", FALSE, TRUE, TRUE, TRUE, FALSE, NoUser)
    ELSE IF IsInstance(me, "AuthKeyError")
    THEN StatusRec("auth_error", FALSE, TRUE, TRUE, FALSE, FALSE, NoUser)
    ELSE IF IsInstance(me, "SessionPasswordNeededError")
    THEN StatusRec("password_needed", FALSE, TRUE, TRUE, FALSE, TRUE, NoUser)
    ELSE StatusRec("error", FALSE, TRUE, TRUE, FALSE, FALSE, NoUser)

\* get_client.py get_session_status(client), the synchronous variant.
client_get_session_status(conn, me) ==
    IF conn = "raises"
    THEN StatusRec("fatal_error", FALSE, FALSE, TRUE, FALSE, FALSE, NoUser)
    ELSE IF conn = "not_connected"
    THEN StatusRec("disconnected", FALSE, FALSE, TRUE, FALSE, FALSE, NoUser)
    ELSE IF me \in {"me", "none"}
    THEN StatusRec("active", TRUE, TRUE, FALSE, FALSE, FALSE,
                   IF me = "me" THEN UserId ELSE NoUser)
    ELSE IF \/ IsInstance(me, "AuthKeyUnregisteredError")
            \/ IsInstance(me, "AuthKeyError")
            \/ IsInstance(me, "SessionExpiredError")
    THEN StatusRec("expired", FALSE, TRUE, TRUE, TRUE, FALSE, NoUser)
    ELSE IF IsInstance(me, "SessionPasswordNeededError")
    THEN StatusRec("password_needed", FALSE, TRUE, TRUE, FALSE, TRUE, NoUser)
    ELSE StatusRec("error", FALSE, TRUE, TRUE, FALSE, FALSE, NoUser)

\* A guard that lets every request through.
requires_reconnect_never(st) == FALSE

\* A check that reads the flag of the disconnected status only.
requires_reconnect_disconnected(st) == st.status = "disconnected"

\* session_status.get("requires_reconnect")
requires_reconnect(st) == st.requires_reconnect


\* ------------------------------------------------------ session requests
\* A reconnect response that never says authenticated.
ReconnectRes_unauth(status, code, auth) ==
    [status |-> status, requires_code |-> code, authenticated |-> FALSE,
     escaped |-> FALSE]

\* What POST /reconnect answers.  escaped: the exception left the handler
\* instead of a dict being returned.
ReconnectRes(status, code, auth) ==
    [status |-> status, requires_code |-> code, authenticated |-> auth,
     escaped |-> FALSE]

NoReconnect == ReconnectRes("none", FALSE, FALSE)

\* An exception no except clause of the handler matches leaves it.
Escaped == [status |-> "none", requires_code |-> FALSE, authenticated |-> FALSE,
            escaped |-> TRUE]

\* A handler that has no except clause.
no_except(exc) == Escaped

\* reconnect_session: "except Exception as e" and its return.
reconnect_except(exc) ==
    IF IsInstance(exc, "Exception")
    THEN ReconnectRes("reconnect_failed", FALSE, FALSE)
    ELSE Escaped

\* What POST /verify-code answers: the HTTP status and the dict's status.
VerifyRes(http, status, auth, pw) ==
    [http |-> http, status |-> status, authenticated |-> auth,
     requires_password |-> pw]

NoVerify == VerifyRes(0, "none", FALSE, FALSE)

\* A handler that answers every exception with verification_failed.
verify_except_generic(exc) == VerifyRes(200, "verification_failed", FALSE, FALSE)

\* verify_code: "except SessionPasswordNeededError", then "except Exception
\* as e", and their returns.  An HTTPException raised inside the try is an
\* Exception like any other.
verify_except(exc) ==
    IF IsInstance(exc, "SessionPasswordNeededError")
    THEN VerifyRes(200, "password_needed", FALSE, TRUE)
    ELSE IF IsInstance(exc, "Exception")
    THEN VerifyRes(200, "verification_failed", FALSE, FALSE)
    ELSE VerifyRes(500, "none", FALSE, FALSE)

\* ------------------------------------------------------- client creation
MinSessionBytes == 100
MaxSessionBytes == 10485760         \* 10 * 1024 * 1024

\* The session file paths create_telegram_client tries, in list order.
NumSessionFiles == 3

\* The SESSION_STRING of the environment.  set: the variable holds a
\* non-empty string; b64: base64.b64decode accepts it; session: what
\* MemorySession(session_data) gives, an exception ("raise"), a session
\* without ("no_key") or with ("key") an auth key; opens:
\* TelegramClient(session, ...) returns rather than raises.
StringStates ==
    {[set |-> FALSE, b64 |-> FALSE, session |-> "raise", opens |-> FALSE],
     [set |-> TRUE, b64 |-> FALSE, session |-> "raise", opens |-> FALSE],
     [set |-> TRUE, b64 |-> TRUE, session |-> "raise", opens |-> FALSE],
     [set |-> TRUE, b64 |-> TRUE, session |-> "no_key", opens |-> FALSE],
     [set |-> TRUE, b64 |-> TRUE, session |-> "key", opens |-> FALSE],
     [set |-> TRUE, b64 |-> TRUE, session |-> "key", opens |-> TRUE]}

\* A session file path.  exists: os.path.exists; size: st_size; readable:
\* open(path, 'rb') and read return rather than raise; opens:
\* TelegramClient(path, ...) returns rather than raises.
MissingFile == [exists |-> FALSE, size |-> 0, readable |-> FALSE, opens |-> FALSE]

FileSizes ==
    {MinSessionBytes - 1, MinSessionBytes, MaxSessionBytes, MaxSessionBytes + 1}

FileStates ==
    {MissingFile}
    \cup [exists : {TRUE}, size : FileSizes, readable : BOOLEAN, opens : BOOLEAN]

\* A health check that accepts every file.
health_any(f) == TRUE

\* check_session_file_health(path)[0]
check_session_file_health(f) ==
    IF ~f.exists THEN FALSE
    ELSE IF f.size < MinSessionBytes THEN FALSE
    ELSE IF f.size > MaxSessionBytes THEN FALSE
    ELSE f.readable

\* load_session_from_string(session_string) is not None
load_session_from_string(str) ==
    IF ~str.b64 THEN FALSE
    ELSE IF str.session = "raise" THEN FALSE
    ELSE str.session = "key"

\* What create_telegram_client gives: the status_info it returns with the
\* client (file: index of the session file, 0 for none), or the
\* RuntimeError it raises.
ClientRes(source, file, valid, login) ==
    [source |-> source, file |-> file, session_valid |-> valid,
     requires_login |-> login, raised |-> FALSE]

ClientError ==
    [source |-> "none", file |-> 0, session_valid |-> FALSE, requires_login |-> FALSE,
     raised |-> TRUE]

NotCreated == [done |-> FALSE, res |-> ClientError]

\* No SESSION_STRING in the environment, no session file on disk.
NoString == [set |-> FALSE, b64 |-> FALSE, session |-> "raise", opens |-> FALSE]
NoFiles == [i \in 1..NumSessionFiles |-> MissingFile]

\* Priority 3: a new client, or RuntimeError.
FreshClient(freshOpens) ==
    IF freshOpens THEN ClientRes("new", 0, FALSE, TRUE) ELSE ClientError

\* Priority 2: "for session_file in session_file_paths" from index i on.
RECURSIVE TryFiles(_, _, _)
TryFiles(files, i, freshOpens) ==
    IF i > Len(files) THEN FreshClient(freshOpens)
    ELSE IF files[i].exists /\ check_session_file_health(files[i]) /\ files[i].opens
    THEN ClientRes("file", i, TRUE, FALSE)
    ELSE TryFiles(files, i + 1, freshOpens)

\* create_telegram_client(api_id, api_hash, phone_number)
create_telegram_client(str, files, freshOpens) ==
    IF str.set /\ load_session_from_string(str) /\ str.opens
    THEN ClientRes("environment_string", 0, TRUE, FALSE)
    ELSE TryFiles(files, 1, freshOpens)

\* ------------------------------------------------------------------ state
VARIABLES
    connected,            \* client.is_connected()
    current_channel,      \* the module global current_channel
    now,                  \* the process clock, in hours
    ticks,                \* clock advances so far
    active_connections,   \* manager.active_connections, a list of websockets
    wsPc,                 \* per websocket: where its websocket_endpoint is parked
    wsApp,                \* per websocket: handshake state of the server side
    clientGone,           \* per websocket: the client has dropped the transport
    wsOk,                 \* per websocket: outcome of the send it is parked at
    wsFirst,              \* per websocket: what the status check at connect said
    inbox,                \* per websocket: frames delivered to the client, in order
    cmds,                 \* per websocket: text commands received so far
    cmdLog,               \* per websocket: the texts its receive loop has read
    evt,                  \* per event: chat_id, message id and date
    hPc,                  \* per event: where its handler task is parked
    hInc,                 \* per event: include_full of the media call
    hChan,                \* per event: channel the media call reads from
    hCalls,               \* per event: the awaited client calls of its media call
    clMsg,                \* the message handed to detect_media_type and get_mime_type
    clOut,                \* what the two functions returned for it
    hData,                \* per event: the broadcast payload
    hEntry,               \* per event: channel and date seen at handler entry
    bcIdx,                \* per event: index of the broadcast's list iterator
    bcCur,                \* per event: websocket of the send it is parked at
    bcOk,                 \* per event: outcome of that send
    bcStart,              \* per event: the registry when broadcast was called
    bcTried,              \* per event: websockets the broadcast sent to
    bcFailed,             \* per event: websockets whose send raised
    bcOther,              \* per event: another flow changed the registry meanwhile
    bcCalls,              \* per event: calls of manager.broadcast so far
    swPc,                 \* the switch_channel request: idle or parked
    swArg,                \* its channel_id
    swCount,              \* switch requests made so far
    stConn,               \* status check: what client.is_connected() does
    stMe,                 \* status check: what client.get_me() does
    stRes,                \* status check: the function applied and its result
    gmPc,                 \* GET /media/{id}: where the request is parked
    gmArg,                \* its message_id and full_data
    gmChan,               \* the channel its media call reads from
    gmRes,                \* its response: code and descriptor
    gmCount,              \* media requests made so far
    lsPc,                 \* GET /messages: where the request is parked
    lsArg,                \* its filter and today_only
    lsMsgs,               \* the fetched messages, newest first
    lsIdx,                \* index of the message the loop is at
    lsChan,               \* the channel the media call of that message reads from
    lsItems,              \* the result list so far
    lsCode,               \* its response code
    lsCount,              \* list requests made so far
    gmCalls,              \* GET /media/{id}: the upstream calls made, with outcomes
    lsCalls,              \* GET /messages: the upstream calls made, with outcomes
    swRes,                \* POST /switch-channel: what its check said, its response
    swLog,                \* the channel_id values of the switches answered 200, in order
    authorized,           \* the upstream holds an authorized user for the session
    twoFactor,            \* the account has a two-factor password
    rcPc,                 \* POST /reconnect: where the request is parked
    rcCalls,              \* the upstream calls it made, with outcomes
    rcRes,                \* its response
    rcCount,              \* reconnect requests made so far
    vcPc,                 \* POST /verify-code: where the request is parked
    vcArg,                \* whether data carries a code, a password
    vcCalls,              \* the upstream calls it made, with outcomes
    vcRes,                \* its response
    vcCount,              \* verify requests made so far
    session_string,       \* the SESSION_STRING of the environment
    session_files,        \* the session file paths, in list order
    fresh_opens,          \* TelegramClient(temp_session_name, ...) returns
    created               \* what create_telegram_client gave

hubVars == <<active_connections, wsPc, wsApp, clientGone, wsOk, wsFirst, inbox, cmds, cmdLog>>
listenerVars == <<evt, hPc, hInc, hChan, hCalls, hData, hEntry>>
broadcastVars == <<bcIdx, bcCur, bcOk, bcStart, bcTried, bcFailed, bcOther, bcCalls>>
switchVars == <<swPc, swArg, swCount, swRes, swLog>>
envVars == <<connected, current_channel, now, ticks>>
statusVars == <<stConn, stMe, stRes>>
mediaVars == <<gmPc, gmArg, gmChan, gmRes, gmCount, gmCalls>>
listVars == <<lsPc, lsArg, lsMsgs, lsIdx, lsChan, lsItems, lsCode, lsCount, lsCalls>>
sessionVars ==
    <<authorized, twoFactor, rcPc, rcCalls, rcRes, rcCount, vcPc, vcArg, vcCalls, vcRes,
      vcCount>>
createVars == <<session_string, session_files, fresh_opens, created>>
classifyVars == <<clMsg, clOut>>
apiVars == <<statusVars, mediaVars, listVars, sessionVars, createVars, classifyVars>>

vars == <<envVars, hubVars, listenerVars, broadcastVars, switchVars, apiVars>>

\* ---------------------------------------------------------------- helpers
Range(seq) == {seq[i] : i \in 1..Len(seq)}

Frame(type, e) == [type |-> type, ev |-> e]

\* One call of the upstream client made by a request, with how it ended.
Call(op, out) == [op |-> op, out |-> out]

\* The transport carries a frame to the client when the handshake was
\* accepted, the server has not closed and the client has not dropped;
\* otherwise ws.send_json raises.
CanSend(w) == wsApp[w] = "accepted" /\ ~clientGone[w]

\* ws.accept(): the handshake can be accepted once, while it is pending; a
\* second accept, or an accept after close, raises.  With the client gone
\* the accept may also raise.
AcceptOutcomes(w) ==
    IF wsApp[w] # "pending" THEN {FALSE}
    ELSE IF clientGone[w] THEN {TRUE, FALSE}
    ELSE {TRUE}

AfterAccept(w, ok) ==
    IF ok THEN "accepted" ELSE IF wsApp[w] = "pending" THEN "closed" ELSE wsApp[w]

\* list.remove(ws): removes the first occurrence.
Remove(reg, w) ==
    LET i == CHOOSE k \in 1..Len(reg) :
                 reg[k] = w /\ \A j \in 1..(k - 1) : reg[j] # w
    IN SubSeq(reg, 1, i - 1) \o SubSeq(reg, i + 1, Len(reg))

\* A registry that puts a new connection first instead of last.
connect_front(reg, w) == <<w>> \o reg

\* ConnectionManager.connect, after the accept: append.
connect(reg, w) == Append(reg, w)

\* A disconnect that drops the newest connection, whichever was named.
disconnect_pop(reg, w) == SubSeq(reg, 1, Len(reg) - 1)

\* A disconnect that forgets to remove.
disconnect_noop(reg, w) == reg

\* ConnectionManager.disconnect
disconnect(reg, w) == IF w \in Range(reg) THEN Remove(reg, w) ELSE reg

\* get_today_date()
get_today_date == strftime_date(now)

\* msg.date.strftime("%Y-%m-%d") if msg.date else None
MsgDate(d) == IF d = NoDate THEN NoDay ELSE strftime_date(d)

\* A listener that filters on the channel only.
PassesChannelOnly(chat_id, date) == chat_id = current_channel

\* The two early returns of the listener.
PassesFilter(chat_id, date) ==
    /\ chat_id = current_channel
    /\ MsgDate(date) = get_today_date

\* The status check as an endpoint sees it, given what get_me did.
CheckNow(me) ==
    get_session_status(IF connected THEN "connected" ELSE "not_connected", me)

\* The status check of a request that was parked in it: client.is_connected()
\* answered True before the check parked at client.get_me() (and, after
\* get_me returned, at the GetAuthorizationsRequest whose failure is
\* swallowed), so the dict is built from that answer whatever the connection
\* is when the check resumes.
CheckResumed(me) == get_session_status("connected", me)

\* What a request's status check reported, as its call log records it.
Reported(st) == IF st.requires_reconnect THEN "reconnect" ELSE "ok"

\* Another flow changed the registry: every broadcast in progress except
\* the one making the change (0: none) is marked.
Disturb(self, changed) ==
    [e \in Events |-> bcOther[e] \/ (changed /\ e # self /\ hPc[e] = "send")]

\* ------------------------------------------------------ websocket endpoint
\* A send that parks before its frame leaves, and never writes it.
SendFrame_unsent(w, type, can) ==
    /\ inbox' = inbox
    /\ wsOk' = [wsOk EXCEPT ![w] = can]

\* Issue ws.send_json of a frame of the given type and park at it: the frame
\* reaches the client now if the transport can carry it, and the task
\* learns the outcome when it resumes.
SendFrame(w, type, can) ==
    /\ inbox' = [inbox EXCEPT ![w] = IF can THEN Append(@, Frame(type, 0)) ELSE @]
    /\ wsOk' = [wsOk EXCEPT ![w] = can]

\* Except branches that return without manager.disconnect(ws).
Leave_registered(w) ==
    /\ UNCHANGED <<active_connections, bcOther>>
    /\ wsPc' = [wsPc EXCEPT ![w] = "returned"]

\* The except branches of websocket_endpoint: manager.disconnect(ws), return.
Leave(w) ==
    /\ active_connections' = disconnect(active_connections, w)
    /\ bcOther' = Disturb(0, w \in Range(active_connections))
    /\ wsPc' = [wsPc EXCEPT ![w] = "returned"]

\* The first status check answered st: with requires_reconnect the
\* endpoint calls ws.accept() of the rejection path, otherwise
\* manager.connect(ws) calls it.
FirstCheck(w, st) ==
    /\ wsFirst' = [wsFirst EXCEPT ![w] =
                      IF st.requires_reconnect THEN "reconnect" ELSE "active"]
    /\ wsPc' = [wsPc EXCEPT ![w] =
                   IF requires_reconnect(st) THEN "rej_accept" ELSE "accept"]

\* A client opens /ws; the endpoint starts its status check.  Not connected,
\* the check answers at once; connected, it is parked at client.get_me().
\* Clients are numbered in the order they arrive.
WsOpen(w) ==
    /\ wsPc[w] = "new"
    /\ \A v \in 1..(w - 1) : wsPc[v] # "new"
    /\ IF connected
       THEN /\ wsPc' = [wsPc EXCEPT ![w] = "status0"]
            /\ UNCHANGED wsFirst
       ELSE FirstCheck(w, CheckNow("me"))
    /\ UNCHANGED <<envVars, active_connections, wsApp, clientGone, wsOk, inbox, cmds, cmdLog,
                   listenerVars, broadcastVars, switchVars, apiVars>>

\* get_me of the first status check returns or raises.
WsStatus0(w) ==
    /\ wsPc[w] = "status0"
    /\ \E me \in MeOutcomes : FirstCheck(w, CheckResumed(me))
    /\ UNCHANGED <<envVars, active_connections, wsApp, clientGone, wsOk, inbox, cmds, cmdLog,
                   listenerVars, broadcastVars, switchVars, apiVars>>

\* Rejection path: the accept returned, send the error frame; or it raised
\* and "except: pass" falls through to manager.connect(ws).
WsRejAccept(w) ==
    /\ wsPc[w] = "rej_accept"
    /\ \E ok \in AcceptOutcomes(w) :
         /\ wsApp' = [wsApp EXCEPT ![w] = AfterAccept(w, ok)]
         /\ IF ok
            THEN /\ SendFrame(w, "error", ~clientGone[w])
                 /\ wsPc' = [wsPc EXCEPT ![w] = "rej_send"]
            ELSE /\ wsPc' = [wsPc EXCEPT ![w] = "accept"]
                 /\ UNCHANGED <<inbox, wsOk>>
    /\ UNCHANGED <<envVars, active_connections, clientGone, wsFirst, cmds, cmdLog,
                   listenerVars, broadcastVars, switchVars, apiVars>>

\* Rejection path: the error frame was sent, call ws.close(); or the send
\* raised and "except: pass" falls through to manager.connect(ws).
WsRejSend(w) ==
    /\ wsPc[w] = "rej_send"
    /\ wsPc' = [wsPc EXCEPT ![w] = IF wsOk[w] THEN "rej_close" ELSE "accept"]
    /\ UNCHANGED <<envVars, active_connections, wsApp, clientGone, wsOk, wsFirst, inbox,
                   cmds, cmdLog, listenerVars, broadcastVars, switchVars, apiVars>>

\* Rejection path: the close returned and the endpoint returns; or it raised
\* (the client is gone) and "except: pass" falls through.
WsRejClose(w) ==
    /\ wsPc[w] = "rej_close"
    /\ wsApp' = [wsApp EXCEPT ![w] = "closed"]
    /\ \E ok \in (IF clientGone[w] THEN {TRUE, FALSE} ELSE {TRUE}) :
         wsPc' = [wsPc EXCEPT ![w] = IF ok THEN "returned" ELSE "accept"]
    /\ UNCHANGED <<envVars, active_connections, clientGone, wsOk, wsFirst, inbox, cmds, cmdLog,
                   listenerVars, broadcastVars, switchVars, apiVars>>

\* manager.connect(ws): the accept returned, append and send the connection
\* frame; or it raised, outside any try.
WsAccept(w) ==
    /\ wsPc[w] = "accept"
    /\ \E ok \in AcceptOutcomes(w) :
         /\ wsApp' = [wsApp EXCEPT ![w] = AfterAccept(w, ok)]
         /\ IF ok
            THEN /\ active_connections' = connect(active_connections, w)
                 /\ bcOther' = Disturb(0, TRUE)
                 /\ SendFrame(w, "connection", ~clientGone[w])
                 /\ wsPc' = [wsPc EXCEPT ![w] = "conn_send"]
            ELSE /\ wsPc' = [wsPc EXCEPT ![w] = "crashed"]
                 /\ UNCHANGED <<active_connections, bcOther, inbox, wsOk>>
    /\ UNCHANGED <<envVars, clientGone, wsFirst, cmds, cmdLog, listenerVars,
                   bcIdx, bcCur, bcOk, bcStart, bcTried, bcFailed, bcCalls, switchVars, apiVars>>

\* The status check inside the try block, then the session_status frame.
StatusThenFrame(w) ==
    IF connected
    THEN /\ wsPc' = [wsPc EXCEPT ![w] = "status1"]
         /\ UNCHANGED <<inbox, wsOk>>
    ELSE /\ SendFrame(w, "session_status", CanSend(w))
         /\ wsPc' = [wsPc EXCEPT ![w] = "st_send"]

\* The connection frame was sent; or the send raised.
WsConnSend(w) ==
    /\ wsPc[w] = "conn_send"
    /\ IF wsOk[w]
       THEN /\ StatusThenFrame(w)
            /\ UNCHANGED <<active_connections, bcOther>>
       ELSE /\ Leave(w)
            /\ UNCHANGED <<inbox, wsOk>>
    /\ UNCHANGED <<envVars, wsApp, clientGone, wsFirst, cmds, cmdLog, listenerVars,
                   bcIdx, bcCur, bcOk, bcStart, bcTried, bcFailed, bcCalls, switchVars, apiVars>>

\* get_me of a later status check returns or raises: either way the check
\* yields a dict, which is sent.
WsStatus1(w) ==
    /\ wsPc[w] = "status1"
    /\ SendFrame(w, "session_status", CanSend(w))
    /\ wsPc' = [wsPc EXCEPT ![w] = "st_send"]
    /\ UNCHANGED <<envVars, active_connections, wsApp, clientGone, wsFirst, cmds, cmdLog,
                   listenerVars, broadcastVars, switchVars, apiVars>>

\* A unicast send inside the loop (session_status or pong) returned: wait in
\* ws.receive_text(); or it raised.
WsSent(w) ==
    /\ wsPc[w] \in {"st_send", "pong_send"}
    /\ IF wsOk[w]
       THEN /\ wsPc' = [wsPc EXCEPT ![w] = "recv"]
            /\ UNCHANGED <<active_connections, bcOther>>
       ELSE Leave(w)
    /\ UNCHANGED <<envVars, wsApp, clientGone, wsOk, wsFirst, inbox, cmds, cmdLog, listenerVars,
                   bcIdx, bcCur, bcOk, bcStart, bcTried, bcFailed, bcCalls, switchVars, apiVars>>

Commands == {"ping", "session_status", "other"}

\* A loop that answers every text with a pong.
Reply_any(data) == "pong"

\* The frame the receive loop answers a text with ("none": no frame).
Reply(data) ==
    IF data = "ping" THEN "pong"
    ELSE IF data = "session_status" THEN "session_status"
    ELSE "none"

\* ws.receive_text() returns a text the client sent.
WsCommand(w) ==
    /\ wsPc[w] = "recv"
    /\ ~clientGone[w]
    /\ cmds[w] < MaxCmds
    /\ cmds' = [cmds EXCEPT ![w] = @ + 1]
    /\ \E data \in Commands :
         /\ cmdLog' = [cmdLog EXCEPT ![w] = Append(@, data)]
         /\ IF Reply(data) = "pong"
            THEN /\ SendFrame(w, "pong", CanSend(w))
                 /\ wsPc' = [wsPc EXCEPT ![w] = "pong_send"]
            ELSE IF Reply(data) = "session_status"
            THEN StatusThenFrame(w)
            ELSE UNCHANGED <<wsPc, inbox, wsOk>>
    /\ UNCHANGED <<envVars, active_connections, wsApp, clientGone, wsFirst,
                   listenerVars, broadcastVars, switchVars, apiVars>>

\* ws.receive_text() raises WebSocketDisconnect: the client is gone.
WsDisconnect(w) ==
    /\ wsPc[w] = "recv"
    /\ clientGone[w]
    /\ Leave(w)
    /\ UNCHANGED <<envVars, wsApp, clientGone, wsOk, wsFirst, inbox, cmds, cmdLog, listenerVars,
                   bcIdx, bcCur, bcOk, bcStart, bcTried, bcFailed, bcCalls, switchVars, apiVars>>

\* The client drops the transport.
ClientDrop(w) ==
    /\ wsPc[w] \notin {"new", "returned", "crashed"}
    /\ ~clientGone[w]
    /\ clientGone' = [clientGone EXCEPT ![w] = TRUE]
    /\ UNCHANGED <<envVars, active_connections, wsPc, wsApp, wsOk, wsFirst, inbox, cmds, cmdLog,
                   listenerVars, broadcastVars, switchVars, apiVars>>

\* ------------------------------------------------- broadcast and listener
\* A payload that carries the "media_data" key whatever the message holds.
Payload_keyed(e, msg, key, desc) ==
    [id |-> evt[e].id,
     type |-> IF msg.media THEN detect_media_type(msg) ELSE "text",
     has_media |-> msg.media,
     media_key |-> TRUE,
     media |-> desc]

\* The payload the listener builds.  media_key says whether the dict has a
\* "media_data" key at all; media is its value.
Payload(e, msg, key, desc) ==
    [id |-> evt[e].id,
     type |-> IF msg.media THEN detect_media_type(msg) ELSE "text",
     has_media |-> msg.media,
     media_key |-> key,
     media |-> desc]

NoPayload == [id |-> 0, type |-> "text", has_media |-> FALSE, media_key |-> FALSE,
              media |-> NoneDesc]

\* One turn of "for ws in self.active_connections": the list iterator holds
\* an index into the live list.  With an element left at that index the
\* loop sends to it and parks at the send; otherwise broadcast returns.
Iterate(e, reg, idx) ==
    IF idx < Len(reg)
    THEN LET w == reg[idx + 1] IN
         /\ hPc' = [hPc EXCEPT ![e] = "send"]
         /\ bcIdx' = [bcIdx EXCEPT ![e] = idx + 1]
         /\ bcCur' = [bcCur EXCEPT ![e] = w]
         /\ bcOk' = [bcOk EXCEPT ![e] = CanSend(w)]
         /\ bcTried' = [bcTried EXCEPT ![e] = @ \cup {w}]
         /\ inbox' = [inbox EXCEPT ![w] =
                         IF CanSend(w) THEN Append(@, Frame("message", e)) ELSE @]
    ELSE /\ hPc' = [hPc EXCEPT ![e] = "done"]
         /\ bcCur' = [bcCur EXCEPT ![e] = 0]
         /\ UNCHANGED <<bcIdx, bcOk, bcTried, inbox>>

\* manager.broadcast(data) is called: the loop starts at index 0.
broadcast(e, data) ==
    /\ hData' = [hData EXCEPT ![e] = data]
    /\ bcStart' = [bcStart EXCEPT ![e] = active_connections]
    /\ bcCalls' = [bcCalls EXCEPT ![e] = @ + 1]
    /\ Iterate(e, active_connections, 0)
    /\ UNCHANGED <<active_connections, bcFailed, bcOther>>

\* The handler task of an event runs: the two filters, the payload, then
\* either the media call (parked at client.get_messages) or the broadcast.
\* Tasks start in the order the events arrived.
HandlerEntry(e) ==
    /\ hPc[e] = "pending"
    /\ connected
    /\ \A d \in 1..(e - 1) : hPc[d] # "pending"
    /\ LET msg == Upstream(evt[e].chat_id, evt[e].id) IN
       /\ hEntry' = [hEntry EXCEPT ![e] =
                        [seen |-> TRUE, channel |-> current_channel,
                         today |-> get_today_date]]
       /\ IF ~PassesFilter(evt[e].chat_id, evt[e].date)
          THEN /\ hPc' = [hPc EXCEPT ![e] = "dropped"]
               /\ UNCHANGED <<hInc, hChan, hCalls, hData, broadcastVars, inbox>>
          ELSE IF msg.media
          THEN /\ hPc' = [hPc EXCEPT ![e] = "get_messages"]
               /\ hInc' = [hInc EXCEPT ![e] = include_full_push(msg)]
               /\ hChan' = [hChan EXCEPT ![e] = current_channel]
               /\ UNCHANGED <<hCalls, hData, broadcastVars, inbox>>
          ELSE /\ broadcast(e, Payload(e, msg, FALSE, NoneDesc))
               /\ UNCHANGED <<hInc, hChan, hCalls>>
    /\ UNCHANGED <<envVars, active_connections, wsPc, wsApp, clientGone, wsOk, wsFirst,
                   cmds, cmdLog, evt, switchVars, apiVars>>

\* A media call that reads the active channel when its fetch resumes.
LookupChannel_late(e) == current_channel

\* The channel argument of the listener's client.get_messages(current_channel,
\* ids=message_id): read when get_media_data is called, in the step of the
\* channel filter.
LookupChannel(e) == hChan[e]

\* get_media_data: client.get_messages returned the message or raised.
HandlerGetMessages(e) ==
    /\ hPc[e] = "get_messages"
    /\ LET ev == Upstream(evt[e].chat_id, evt[e].id)
           msg == Upstream(LookupChannel(e), evt[e].id)
       IN \E raised \in BOOLEAN :
            LET r == AfterGetMessages(msg, hInc[e], raised) IN
            /\ hCalls' = [hCalls EXCEPT ![e] =
                  Append(@, Call("get_messages", GetOutcome(msg, raised)))]
            /\ IF r.next = "download"
               THEN /\ hPc' = [hPc EXCEPT ![e] = "download"]
                    /\ UNCHANGED <<hData, broadcastVars, inbox>>
               ELSE broadcast(e, Payload(e, ev, TRUE, r.desc))
    /\ UNCHANGED <<envVars, active_connections, wsPc, wsApp, clientGone, wsOk, wsFirst,
                   cmds, cmdLog, evt, hInc, hChan, hEntry, switchVars, apiVars>>

\* get_media_data: client.download_media returned bytes, nothing, or raised.
HandlerDownload(e) ==
    /\ hPc[e] = "download"
    /\ LET ev == Upstream(evt[e].chat_id, evt[e].id)
           msg == Upstream(LookupChannel(e), evt[e].id)
       IN \E n \in DownloadOutcomes(msg) :
            /\ hCalls' = [hCalls EXCEPT ![e] =
                  Append(@, Call("download_media", BytesOutcome(n)))]
            /\ broadcast(e, Payload(e, ev, TRUE, AfterDownload(msg, n)))
    /\ UNCHANGED <<envVars, active_connections, wsPc, wsApp, clientGone, wsOk, wsFirst,
                   cmds, cmdLog, evt, hInc, hChan, hEntry, switchVars, apiVars>>

\* The send the broadcast was parked at returned, or raised and the bare
\* except called self.disconnect(ws); then the loop takes its next turn.
BroadcastStep(e) ==
    /\ hPc[e] = "send"
    /\ LET w == bcCur[e]
           reg == IF bcOk[e] THEN active_connections
                  ELSE disconnect(active_connections, w)
       IN /\ active_connections' = reg
          /\ bcFailed' = [bcFailed EXCEPT ![e] = IF bcOk[e] THEN @ ELSE @ \cup {w}]
          /\ bcOther' = Disturb(e, reg # active_connections)
          /\ Iterate(e, reg, bcIdx[e])
    /\ UNCHANGED <<envVars, wsPc, wsApp, clientGone, wsOk, wsFirst, cmds, cmdLog,
                   evt, hInc, hChan, hCalls, hData, hEntry, bcStart, bcCalls, switchVars,
                   apiVars>>

\* ------------------------------------------------------------ environment
TickHours == 12

\* Time passes.
Tick ==
    /\ ticks < MaxTicks
    /\ ticks' = ticks + 1
    /\ now' = now + TickHours
    /\ UNCHANGED <<connected, current_channel, hubVars, listenerVars, broadcastVars,
                   switchVars, apiVars>>

\* What the request body holds under "channel_id": a JSON integer, a JSON
\* number with a fraction, a string of digits, a string of a number with a
\* fraction, any other string, null, or nothing (the key is missing).  The
\* number is num / den.
Json(form, num, den) == [form |-> form, num |-> num, den |-> den]
JsonInt(c) == Json("int", c, 1)

UnknownChannel == 8               \* a channel id the upstream does not know

SwitchInputs ==
    {JsonInt(c) : c \in Channels \cup {UnknownChannel}}
    \cup {Json("float", 95, 10), Json("float", -75, 10),
          Json("str", OtherChannel, 1), Json("str", 95, 10),
          Json("text", 0, 1), Json("null", 0, 1), Json("missing", 0, 1)}

\* Python's int() of a number: the fraction is cut off, toward zero.
Trunc(num, den) == IF num >= 0 THEN num \div den ELSE -((-num) \div den)

\* A conversion that loses the channel id.
int_zero(v) == [ok |-> TRUE, val |-> 0]

\* A conversion that answers 0 where int() raises.
int_lenient(v) ==
    IF v.form \in {"int", "float"} \/ (v.form = "str" /\ v.den = 1)
    THEN [ok |-> TRUE, val |-> Trunc(v.num, v.den)]
    ELSE [ok |-> TRUE, val |-> 0]

\* int(data["channel_id"]): an integer is itself, a float is truncated, a
\* string is parsed if it is an integer literal; any other string raises
\* ValueError, null TypeError, a missing key KeyError (ok = FALSE).
int(v) ==
    IF v.form \in {"int", "float"} \/ (v.form = "str" /\ v.den = 1)
    THEN [ok |-> TRUE, val |-> Trunc(v.num, v.den)]
    ELSE [ok |-> FALSE, val |-> 0]

\* What a switch request has answered: what its status check said ("none":
\* not yet) and the response code (200: the dict with status "ok").
NoSwitch == [checked |-> "none", code |-> 0]

\* POST /switch-channel with the body's channel_id c: the status check; not
\* connected, it answers at once and the request is refused with 401.
SwitchBegin(c) ==
    /\ swPc = "idle"
    /\ swCount < MaxSwitch
    /\ swCount' = swCount + 1
    /\ swArg' = c
    /\ IF connected
       THEN swPc' = "status" /\ swRes' = NoSwitch
       ELSE /\ swPc' = "idle"
            /\ swRes' = [checked |-> Reported(CheckNow("me")), code |-> 401]
    /\ UNCHANGED <<swLog, envVars, hubVars, listenerVars, broadcastVars, apiVars>>

\* get_me of the request's status check returns or raises: 401, or the
\* assignment to the global; when int(data["channel_id"]) raises, nothing is
\* assigned and the request fails with 500.
SwitchStatus ==
    /\ swPc = "status"
    /\ swPc' = "idle"
    /\ \E me \in MeOutcomes :
         IF requires_reconnect(CheckResumed(me))
         THEN /\ swRes' = [checked |-> Reported(CheckResumed(me)), code |-> 401]
              /\ UNCHANGED <<current_channel, swLog>>
         ELSE IF int(swArg).ok
         THEN /\ swRes' = [checked |-> Reported(CheckResumed(me)), code |-> 200]
              /\ current_channel' = int(swArg).val
              /\ swLog' = Append(swLog, swArg)
         ELSE /\ swRes' = [checked |-> Reported(CheckResumed(me)), code |-> 500]
              /\ UNCHANGED <<current_channel, swLog>>
    /\ UNCHANGED <<connected, now, ticks, hubVars, listenerVars, broadcastVars,
                   swArg, swCount, apiVars>>

\* ------------------------------------------------------ status checks
\* The upstream changes what is_connected and get_me will do.
SetUpstream(c, m) ==
    /\ <<c, m>> # <<stConn, stMe>>
    /\ stConn' = c
    /\ stMe' = m
    /\ UNCHANGED <<stRes, envVars, hubVars, listenerVars, broadcastVars, switchVars,
                   mediaVars, listVars, sessionVars, createVars, classifyVars>>

\* GET /session-status: app.py's get_session_status answers.
CheckStatusApp ==
    /\ stRes' = [impl |-> "app", conn |-> stConn, me |-> stMe,
                 rec |-> get_session_status(stConn, stMe)]
    /\ UNCHANGED <<stConn, stMe, envVars, hubVars, listenerVars, broadcastVars,
                   switchVars, mediaVars, listVars, sessionVars, createVars, classifyVars>>

\* get_client.py's get_session_status(client) answers.
CheckStatusClient ==
    /\ stRes' = [impl |-> "client", conn |-> stConn, me |-> stMe,
                 rec |-> client_get_session_status(stConn, stMe)]
    /\ UNCHANGED <<stConn, stMe, envVars, hubVars, listenerVars, broadcastVars,
                   switchVars, mediaVars, listVars, sessionVars, createVars, classifyVars>>

\* -------------------------------------------------------- GET /media/{id}
MaxMedia == 1

\* raise HTTPException(401) / raise HTTPException(404) / return media_data
GmRespond(code, desc) ==
    /\ gmPc' = "idle"
    /\ gmRes' = [code |-> code, desc |-> desc]

\* get_media(message_id, full_data): the status check; not connected, it
\* answers at once and the request is refused with 401.
GmBegin(id, full) ==
    /\ gmPc = "idle"
    /\ gmCount < MaxMedia
    /\ gmCount' = gmCount + 1
    /\ gmArg' = [id |-> id, full |-> full]
    /\ IF connected
       THEN gmPc' = "status" /\ gmCalls' = <<>> /\ UNCHANGED gmRes
       ELSE GmRespond(401, NoneDesc) /\ gmCalls' = <<Call("status", Reported(CheckNow("me")))>>
    /\ gmChan' = 0
    /\ UNCHANGED <<envVars, hubVars, listenerVars, broadcastVars, switchVars,
                   statusVars, listVars, sessionVars, createVars, classifyVars>>

\* get_me of the status check returns or raises: 401, or get_media_data is
\* called with include_full_data = full_data and parks at
\* client.get_messages(current_channel, ids=message_id).
GmStatus ==
    /\ gmPc = "status"
    /\ \E me \in MeOutcomes :
         /\ gmCalls' = Append(gmCalls, Call("status", Reported(CheckResumed(me))))
         /\ IF requires_reconnect(CheckResumed(me))
            THEN /\ GmRespond(401, NoneDesc)
                 /\ UNCHANGED gmChan
            ELSE /\ gmPc' = "get_messages"
                 /\ gmChan' = current_channel
                 /\ UNCHANGED gmRes
    /\ UNCHANGED <<gmArg, gmCount, envVars, hubVars, listenerVars, broadcastVars,
                   switchVars, statusVars, listVars, sessionVars, createVars, classifyVars>>

\* get_media_data: client.get_messages returned the message or raised.
GmGetMessages ==
    /\ gmPc = "get_messages"
    /\ \E raised \in BOOLEAN :
         LET r == AfterGetMessages(Upstream(gmChan, gmArg.id), gmArg.full, raised) IN
         /\ gmCalls' = Append(gmCalls,
                              Call("get_messages", IF raised THEN "raise" ELSE "ok"))
         /\ IF r.next = "download"
            THEN gmPc' = "download" /\ UNCHANGED gmRes
            ELSE IF r.desc.some THEN GmRespond(200, r.desc) ELSE GmRespond(404, NoneDesc)
    /\ UNCHANGED <<gmArg, gmChan, gmCount, envVars, hubVars, listenerVars,
                   broadcastVars, switchVars, statusVars, listVars, sessionVars, createVars, classifyVars>>

\* get_media_data: client.download_media returned bytes, nothing, or raised.
GmDownload ==
    /\ gmPc = "download"
    /\ \E n \in DownloadOutcomes(Upstream(gmChan, gmArg.id)) :
         LET desc == AfterDownload(Upstream(gmChan, gmArg.id), n) IN
         /\ gmCalls' = Append(gmCalls,
                              Call("download_media", IF n < 0 THEN "raise" ELSE "ok"))
         /\ IF desc.some THEN GmRespond(200, desc) ELSE GmRespond(404, NoneDesc)
    /\ UNCHANGED <<gmArg, gmChan, gmCount, envVars, hubVars, listenerVars,
                   broadcastVars, switchVars, statusVars, listVars, sessionVars, createVars, classifyVars>>

\* ----------------------------------------------------------- GET /messages
MaxList == 1

NoArg == [filter |-> TRUE, today_only |-> FALSE, from |-> 0, today |-> NoDay]

\* The item of the result list for one message.  media_key says whether the
\* dict has a "media_data" key (the text-only mode has none).
Item(id, msg, textOnly, desc) ==
    [id |-> id,
     type |-> IF textOnly THEN "text" ELSE detect_media_type(msg),
     media_key |-> ~textOnly,
     media |-> desc]

\* "for msg in messages" from index i on, up to the next await: the loop
\* skips or appends messages until one with media needs get_media_data
\* (idx is its index) or the list is exhausted (idx = Len + 1).
RECURSIVE Loop(_, _, _, _)
Loop(msgs, arg, i, items) ==
    IF i > Len(msgs) THEN [idx |-> i, items |-> items]
    ELSE LET msg == Upstream(arg.from, msgs[i]) IN
         IF arg.today_only /\ msg.date # NoDate /\ strftime_date(msg.date) # arg.today
         THEN Loop(msgs, arg, i + 1, items)
         ELSE IF arg.filter
         THEN IF ~msg.text
              THEN Loop(msgs, arg, i + 1, items)
              ELSE Loop(msgs, arg, i + 1, Append(items, Item(msgs[i], msg, TRUE, NoneDesc)))
         ELSE IF msg.media
         THEN [idx |-> i, items |-> items]
         ELSE Loop(msgs, arg, i + 1, Append(items, Item(msgs[i], msg, FALSE, NoneDesc)))

\* Run the loop on: either the request parks at the media call of message
\* r.idx, which reads current_channel now, or it answers 200.
LsContinue(msgs, arg, r) ==
    /\ lsItems' = r.items
    /\ lsIdx' = r.idx
    /\ IF r.idx > Len(msgs)
       THEN /\ lsPc' = "idle"
            /\ lsCode' = 200
            /\ UNCHANGED lsChan
       ELSE /\ lsPc' = "item_get_messages"
            /\ lsChan' = current_channel
            /\ UNCHANGED lsCode

\* get_media_data returned desc for the message the loop is at: the item
\* is appended and the loop goes on.
LsAppend(desc) ==
    LET id == lsMsgs[lsIdx]
        msg == Upstream(lsArg.from, id)
    IN LsContinue(lsMsgs, lsArg,
                  Loop(lsMsgs, lsArg, lsIdx + 1,
                       Append(lsItems, Item(id, msg, FALSE, desc))))

\* get_messages(filter, today_only): the status check; not connected, it
\* answers at once and the request is refused with 401.
LsBegin(f, t) ==
    /\ lsPc = "idle"
    /\ lsCount < MaxList
    /\ lsCount' = lsCount + 1
    /\ lsArg' = [NoArg EXCEPT !.filter = f, !.today_only = t]
    /\ lsMsgs' = <<>>
    /\ lsItems' = <<>>
    /\ lsIdx' = 0
    /\ IF connected
       THEN lsPc' = "status" /\ lsCode' = 0 /\ lsCalls' = <<>>
       ELSE /\ lsPc' = "idle"
            /\ lsCode' = 401
            /\ lsCalls' = <<Call("status", Reported(CheckNow("me")))>>
    /\ lsChan' = 0
    /\ UNCHANGED <<envVars, hubVars, listenerVars, broadcastVars, switchVars,
                   statusVars, mediaVars, sessionVars, createVars, classifyVars>>

\* get_me of the status check returns or raises: 401, or the request parks
\* at client.get_messages(current_channel, limit, offset_id).
LsStatus ==
    /\ lsPc = "status"
    /\ \E me \in MeOutcomes :
         /\ lsCalls' = Append(lsCalls, Call("status", Reported(CheckResumed(me))))
         /\ IF requires_reconnect(CheckResumed(me))
            THEN /\ lsPc' = "idle"
                 /\ lsCode' = 401
                 /\ UNCHANGED lsArg
            ELSE /\ lsPc' = "fetch"
                 /\ lsArg' = [lsArg EXCEPT !.from = current_channel]
                 /\ UNCHANGED lsCode
    /\ UNCHANGED <<lsMsgs, lsIdx, lsChan, lsItems, lsCount, envVars, hubVars,
                   listenerVars, broadcastVars, switchVars, statusVars, mediaVars,
                   sessionVars, createVars, classifyVars>>

\* client.get_messages returned the channel's messages, or raised (the
\* call is outside any try: the request fails with 500).  today is read
\* once, before the loop.
LsFetch ==
    /\ lsPc = "fetch"
    /\ \E raised \in BOOLEAN :
         /\ lsCalls' = Append(lsCalls,
                              Call("get_messages", IF raised THEN "raise" ELSE "ok"))
         /\ IF raised
            THEN /\ lsPc' = "idle"
                 /\ lsCode' = 500
                 /\ UNCHANGED <<lsArg, lsMsgs, lsIdx, lsChan, lsItems>>
            ELSE LET arg == [lsArg EXCEPT !.today = get_today_date]
                     msgs == History(lsArg.from)
                 IN /\ lsArg' = arg
                    /\ lsMsgs' = msgs
                    /\ LsContinue(msgs, arg, Loop(msgs, arg, 1, <<>>))
    /\ UNCHANGED <<lsCount, envVars, hubVars, listenerVars, broadcastVars, switchVars,
                   statusVars, mediaVars, sessionVars, createVars, classifyVars>>

\* get_media_data of the message the loop is at: client.get_messages
\* returned the message or raised.  include_full was decided from the size
\* of the listed message.
LsItemGetMessages ==
    /\ lsPc = "item_get_messages"
    /\ \E raised \in BOOLEAN :
         LET listed == Upstream(lsArg.from, lsMsgs[lsIdx])
             r == AfterGetMessages(Upstream(lsChan, lsMsgs[lsIdx]),
                                   include_full_pull(listed), raised)
         IN /\ lsCalls' = Append(lsCalls,
                                 Call("get_messages", IF raised THEN "raise" ELSE "ok"))
            /\ IF r.next = "download"
               THEN /\ lsPc' = "item_download"
                    /\ UNCHANGED <<lsIdx, lsChan, lsItems, lsCode>>
               ELSE LsAppend(r.desc)
    /\ UNCHANGED <<lsArg, lsMsgs, lsCount, envVars, hubVars, listenerVars,
                   broadcastVars, switchVars, statusVars, mediaVars, sessionVars, createVars, classifyVars>>

\* get_media_data of the message the loop is at: client.download_media
\* returned bytes, nothing, or raised.
LsItemDownload ==
    /\ lsPc = "item_download"
    /\ \E n \in DownloadOutcomes(Upstream(lsChan, lsMsgs[lsIdx])) :
         /\ lsCalls' = Append(lsCalls,
                              Call("download_media", IF n < 0 THEN "raise" ELSE "ok"))
         /\ LsAppend(AfterDownload(Upstream(lsChan, lsMsgs[lsIdx]), n))
    /\ UNCHANGED <<lsArg, lsMsgs, lsCount, envVars, hubVars, listenerVars,
                   broadcastVars, switchVars, statusVars, mediaVars, sessionVars, createVars, classifyVars>>

\* ---------------------------------------------------------- POST /reconnect
MaxReconnect == 1

\* The errors an upstream call of the session requests may raise besides
\* the two-factor demand.
CallErrors == {"ConnectionError", "PhoneCodeInvalidError"}

\* The request ends: the dict is returned, or the except clause answers.
RcReturn(res) ==
    /\ rcPc' = "idle"
    /\ rcRes' = res

\* reconnect_session(): client.is_connected() answers or raises; connected,
\* the request parks at client.disconnect(), else at client.connect().
RcBegin ==
    /\ rcPc = "idle"
    /\ rcCount < MaxReconnect
    /\ rcCount' = rcCount + 1
    /\ \/ /\ rcCalls' = <<Call("is_connected", IF connected THEN "yes" ELSE "no")>>
          /\ rcPc' = IF connected THEN "disconnect" ELSE "connect"
          /\ rcRes' = NoReconnect
       \/ \E exc \in CallErrors :
            /\ rcCalls' = <<Call("is_connected", "raise")>>
            /\ RcReturn(reconnect_except(exc))
    /\ UNCHANGED <<envVars, hubVars, listenerVars, broadcastVars, switchVars, statusVars,
                   mediaVars, listVars, createVars, classifyVars, authorized, twoFactor, vcPc, vcArg, vcCalls,
                   vcRes, vcCount>>

\* client.disconnect() returned, or raised.
RcDisconnect ==
    /\ rcPc = "disconnect"
    /\ \/ /\ rcCalls' = Append(rcCalls, Call("disconnect", "ok"))
          /\ connected' = FALSE
          /\ rcPc' = "connect"
          /\ UNCHANGED rcRes
       \/ \E exc \in CallErrors :
            /\ rcCalls' = Append(rcCalls, Call("disconnect", "raise"))
            /\ RcReturn(reconnect_except(exc))
            /\ UNCHANGED connected
    /\ UNCHANGED <<current_channel, now, ticks, hubVars, listenerVars, broadcastVars,
                   switchVars, statusVars, mediaVars, listVars, createVars, classifyVars, authorized, twoFactor,
                   rcCount, vcPc, vcArg, vcCalls, vcRes, vcCount>>

\* client.connect() returned, or raised; connected, the request parks at
\* client.is_user_authorized().
RcConnect ==
    /\ rcPc = "connect"
    /\ \/ /\ rcCalls' = Append(rcCalls, Call("connect", "ok"))
          /\ connected' = TRUE
          /\ rcPc' = "is_user_authorized"
          /\ UNCHANGED rcRes
       \/ \E exc \in CallErrors :
            /\ rcCalls' = Append(rcCalls, Call("connect", "raise"))
            /\ RcReturn(reconnect_except(exc))
            /\ UNCHANGED connected
    /\ UNCHANGED <<current_channel, now, ticks, hubVars, listenerVars, broadcastVars,
                   switchVars, statusVars, mediaVars, listVars, createVars, classifyVars, authorized, twoFactor,
                   rcCount, vcPc, vcArg, vcCalls, vcRes, vcCount>>

\* client.is_user_authorized() answered, or raised: authorized, the request
\* returns "reconnected"; not authorized, it parks at
\* client.send_code_request(phone_number).
RcAuthorized ==
    /\ rcPc = "is_user_authorized"
    /\ \/ /\ rcCalls' = Append(rcCalls,
                               Call("is_user_authorized", IF authorized THEN "yes" ELSE "no"))
          /\ IF authorized
             THEN RcReturn(ReconnectRes("reconnected", FALSE, TRUE))
             ELSE rcPc' = "send_code_request" /\ UNCHANGED rcRes
       \/ \E exc \in CallErrors :
            /\ rcCalls' = Append(rcCalls, Call("is_user_authorized", "raise"))
            /\ RcReturn(reconnect_except(exc))
    /\ UNCHANGED <<envVars, hubVars, listenerVars, broadcastVars, switchVars, statusVars,
                   mediaVars, listVars, createVars, classifyVars, authorized, twoFactor, rcCount, vcPc, vcArg,
                   vcCalls, vcRes, vcCount>>

\* client.send_code_request(phone_number) returned, or raised.
RcSendCode ==
    /\ rcPc = "send_code_request"
    /\ \/ /\ rcCalls' = Append(rcCalls, Call("send_code_request", "ok"))
          /\ RcReturn(ReconnectRes("code_sent", TRUE, FALSE))
       \/ \E exc \in CallErrors :
            /\ rcCalls' = Append(rcCalls, Call("send_code_request", "raise"))
            /\ RcReturn(reconnect_except(exc))
    /\ UNCHANGED <<envVars, hubVars, listenerVars, broadcastVars, switchVars, statusVars,
                   mediaVars, listVars, createVars, classifyVars, authorized, twoFactor, rcCount, vcPc, vcArg,
                   vcCalls, vcRes, vcCount>>

\* -------------------------------------------------------- POST /verify-code
MaxVerify == 1

\* The request ends: the dict is returned, or an except clause answers.
VcReturn(res) ==
    /\ vcPc' = "idle"
    /\ vcRes' = res

\* verify_code(data): code and password say whether data carries a
\* non-empty "code", "password".  Without a code the handler raises
\* HTTPException(400) inside its try; with one it parks at
\* client.sign_in(phone_number, code).
VcBegin(code, password) ==
    /\ vcPc = "idle"
    /\ vcCount < MaxVerify
    /\ vcCount' = vcCount + 1
    /\ vcArg' = [code |-> code, password |-> password]
    /\ vcCalls' = <<>>
    /\ IF ~code
       THEN VcReturn(verify_except("HTTPException"))
       ELSE vcPc' = "sign_in_code" /\ vcRes' = NoVerify
    /\ UNCHANGED <<envVars, hubVars, listenerVars, broadcastVars, switchVars, statusVars,
                   mediaVars, listVars, createVars, classifyVars, authorized, twoFactor, rcPc, rcCalls, rcRes,
                   rcCount>>

\* What client.sign_in(phone_number, code) does: with a two-factor password
\* on the account it raises SessionPasswordNeededError once the code is
\* accepted; without one it signs the user in; or the call fails.
SignInCodeOutcomes ==
    (IF twoFactor THEN {"SessionPasswordNeededError"} ELSE {"ok"}) \cup CallErrors

\* client.sign_in(phone_number, code) returned, or raised: returned, the
\* handler goes on to client.sign_in(password=password) if a password was
\* given, and returns "verified" otherwise.
VcSignInCode ==
    /\ vcPc = "sign_in_code"
    /\ \E out \in SignInCodeOutcomes :
         /\ vcCalls' = Append(vcCalls, Call("sign_in_code", out))
         /\ IF out = "ok"
            THEN /\ authorized' = TRUE
                 /\ IF vcArg.password
                    THEN vcPc' = "sign_in_password" /\ UNCHANGED vcRes
                    ELSE VcReturn(VerifyRes(200, "verified", TRUE, FALSE))
            ELSE /\ VcReturn(verify_except(out))
                 /\ UNCHANGED authorized
    /\ UNCHANGED <<envVars, hubVars, listenerVars, broadcastVars, switchVars, statusVars,
                   mediaVars, listVars, createVars, classifyVars, twoFactor, rcPc, rcCalls, rcRes, rcCount, vcArg,
                   vcCount>>

\* client.sign_in(password=password) returned, or raised.
VcSignInPassword ==
    /\ vcPc = "sign_in_password"
    /\ \E out \in {"ok"} \cup CallErrors :
         /\ vcCalls' = Append(vcCalls, Call("sign_in_password", out))
         /\ IF out = "ok"
            THEN VcReturn(VerifyRes(200, "verified", TRUE, FALSE))
            ELSE VcReturn(verify_except(out))
    /\ UNCHANGED <<envVars, hubVars, listenerVars, broadcastVars, switchVars, statusVars,
                   mediaVars, listVars, createVars, classifyVars, authorized, twoFactor, rcPc, rcCalls, rcRes,
                   rcCount, vcArg, vcCount>>

\* ------------------------------------------------------------ startup
\* app.py calls create_telegram_client once, when the module is loaded.
CreateClient ==
    /\ ~created.done
    /\ created' = [done |-> TRUE,
                   res |-> create_telegram_client(session_string, session_files,
                                                  fresh_opens)]
    /\ UNCHANGED <<session_string, session_files, fresh_opens, envVars, hubVars,
                   listenerVars, broadcastVars, switchVars, statusVars, mediaVars,
                   listVars, sessionVars, classifyVars>>

\* ------------------------------------------------------------ classification
\* detect_media_type(msg) and get_mime_type(msg) are applied to a message.
Classify ==
    /\ ~clOut.done
    /\ clOut' = [done |-> TRUE, kind |-> detect_media_type(clMsg),
                 mime |-> get_mime_type(clMsg)]
    /\ UNCHANGED <<clMsg, envVars, hubVars, listenerVars, broadcastVars, switchVars,
                   statusVars, mediaVars, listVars, sessionVars, createVars>>

\* ------------------------------------------------------------ specification
\* The event the upstream emits for a stored message.
Event(ch, id) == [chat_id |-> ch, id |-> id, date |-> Upstream(ch, id).date]

TextToday == Event(DEFAULT_CHANNEL, 1)

\* The events that may arrive: in or out of the active channel, dated today,
\* yesterday or not at all, with and without an attachment.
EventPool ==
    {Event(DEFAULT_CHANNEL, 1), Event(DEFAULT_CHANNEL, 2), Event(DEFAULT_CHANNEL, 3),
     Event(DEFAULT_CHANNEL, 4), Event(DEFAULT_CHANNEL, 5), Event(OtherChannel, 3)}

NoEntry == [seen |-> FALSE, channel |-> 0, today |-> 0]

\* The state after the module is loaded, but for the upstream connection
\* and the events that will arrive.
InitProcess ==
    /\ current_channel = DEFAULT_CHANNEL
    /\ now = StartTime
    /\ ticks = 0
    /\ active_connections = <<>>
    /\ wsPc = [w \in WS |-> "new"]
    /\ wsApp = [w \in WS |-> "pending"]
    /\ clientGone = [w \in WS |-> FALSE]
    /\ wsOk = [w \in WS |-> TRUE]
    /\ wsFirst = [w \in WS |-> "none"]
    /\ inbox = [w \in WS |-> <<>>]
    /\ cmds = [w \in WS |-> 0]
    /\ cmdLog = [w \in WS |-> <<>>]
    /\ hPc = [e \in Events |-> "pending"]
    /\ hInc = [e \in Events |-> FALSE]
    /\ hChan = [e \in Events |-> 0]
    /\ hCalls = [e \in Events |-> <<>>]
    /\ hData = [e \in Events |-> NoPayload]
    /\ hEntry = [e \in Events |-> NoEntry]
    /\ bcIdx = [e \in Events |-> 0]
    /\ bcCur = [e \in Events |-> 0]
    /\ bcOk = [e \in Events |-> TRUE]
    /\ bcStart = [e \in Events |-> <<>>]
    /\ bcTried = [e \in Events |-> {}]
    /\ bcFailed = [e \in Events |-> {}]
    /\ bcOther = [e \in Events |-> FALSE]
    /\ bcCalls = [e \in Events |-> 0]
    /\ swPc = "idle"
    /\ swArg = JsonInt(DEFAULT_CHANNEL)
    /\ swCount = 0
    /\ stRes = [impl |-> "none", conn |-> "connected", me |-> "me",
                rec |-> get_session_status("connected", "me")]
    /\ gmPc = "idle"
    /\ gmArg = [id |-> 0, full |-> TRUE]
    /\ gmChan = 0
    /\ gmRes = [code |-> 0, desc |-> NoneDesc]
    /\ gmCount = 0
    /\ lsPc = "idle"
    /\ lsArg = NoArg
    /\ lsMsgs = <<>>
    /\ lsIdx = 0
    /\ lsChan = 0
    /\ lsItems = <<>>
    /\ lsCode = 0
    /\ lsCount = 0
    /\ gmCalls = <<>>
    /\ lsCalls = <<>>
    /\ swRes = NoSwitch
    /\ swLog = <<>>
    /\ rcPc = "idle"
    /\ rcCalls = <<>>
    /\ rcRes = NoReconnect
    /\ rcCount = 0
    /\ vcPc = "idle"
    /\ vcArg = [code |-> FALSE, password |-> FALSE]
    /\ vcCalls = <<>>
    /\ vcRes = NoVerify
    /\ vcCount = 0
    /\ created = NotCreated
    /\ clOut = NotClassified

\* The hub: NumWS clients come and go while NumEvents text messages of the
\* active channel are relayed.
Init ==
    /\ InitProcess
    /\ connected = TRUE
    /\ authorized = TRUE
    /\ twoFactor = FALSE
    /\ stConn = "connected"
    /\ stMe = "me"
    /\ session_string = NoString
    /\ session_files = NoFiles
    /\ fresh_opens = TRUE
    /\ clMsg = PlainText
    /\ evt = [e \in Events |-> TextToday]

Next ==
    \/ \E w \in WS : WsOpen(w)
    \/ \E w \in WS : WsStatus0(w)
    \/ \E w \in WS : WsRejAccept(w)
    \/ \E w \in WS : WsRejSend(w)
    \/ \E w \in WS : WsRejClose(w)
    \/ \E w \in WS : WsAccept(w)
    \/ \E w \in WS : WsConnSend(w)
    \/ \E w \in WS : WsStatus1(w)
    \/ \E w \in WS : WsSent(w)
    \/ \E w \in WS : WsDisconnect(w)
    \/ \E w \in WS : ClientDrop(w)
    \/ \E e \in Events : HandlerEntry(e)
    \/ \E e \in Events : BroadcastStep(e)

Spec == Init /\ [][Next]_vars

\* The listener: NumEvents events of every sort arrive while one client is
\* served, the clock advances and the active channel is switched.
ListenerWS == 1
ListenerSwitches == 1

InitListener ==
    /\ InitProcess
    /\ connected = TRUE
    /\ authorized = TRUE
    /\ twoFactor = FALSE
    /\ stConn = "connected"
    /\ stMe = "me"
    /\ session_string = NoString
    /\ session_files = NoFiles
    /\ fresh_opens = TRUE
    /\ clMsg = PlainText
    /\ evt \in [Events -> EventPool]

NextListener ==
    \/ \E w \in 1..ListenerWS : WsOpen(w)
    \/ \E w \in 1..ListenerWS : WsStatus0(w)
    \/ \E w \in 1..ListenerWS : WsRejAccept(w)
    \/ \E w \in 1..ListenerWS : WsRejSend(w)
    \/ \E w \in 1..ListenerWS : WsRejClose(w)
    \/ \E w \in 1..ListenerWS : WsAccept(w)
    \/ \E w \in 1..ListenerWS : WsConnSend(w)
    \/ \E w \in 1..ListenerWS : WsStatus1(w)
    \/ \E w \in 1..ListenerWS : WsSent(w)
    \/ \E w \in 1..ListenerWS : WsDisconnect(w)
    \/ \E w \in 1..ListenerWS : ClientDrop(w)
    \/ \E e \in Events : HandlerEntry(e)
    \/ \E e \in Events : HandlerGetMessages(e)
    \/ \E e \in Events : HandlerDownload(e)
    \/ \E e \in Events : BroadcastStep(e)
    \/ Tick
    \/ \E c \in Channels : swCount < ListenerSwitches /\ SwitchBegin(JsonInt(c))
    \/ SwitchStatus

SpecListener == InitListener /\ [][NextListener]_vars

\* The endpoint: NumWS clients connect, with the upstream connected or not,
\* send commands and drop, while one text message is relayed.
EndpointEvents == 1

InitEndpoint ==
    /\ InitProcess
    /\ connected \in BOOLEAN
    /\ authorized = TRUE
    /\ twoFactor = FALSE
    /\ stConn = "connected"
    /\ stMe = "me"
    /\ session_string = NoString
    /\ session_files = NoFiles
    /\ fresh_opens = TRUE
    /\ clMsg = PlainText
    /\ evt = [e \in Events |-> TextToday]

NextEndpoint ==
    \/ \E w \in WS : WsOpen(w)
    \/ \E w \in WS : WsStatus0(w)
    \/ \E w \in WS : WsRejAccept(w)
    \/ \E w \in WS : WsRejSend(w)
    \/ \E w \in WS : WsRejClose(w)
    \/ \E w \in WS : WsAccept(w)
    \/ \E w \in WS : WsConnSend(w)
    \/ \E w \in WS : WsStatus1(w)
    \/ \E w \in WS : WsSent(w)
    \/ \E w \in WS : WsCommand(w)
    \/ \E w \in WS : WsDisconnect(w)
    \/ \E w \in WS : ClientDrop(w)
    \/ \E e \in 1..EndpointEvents : HandlerEntry(e)
    \/ \E e \in 1..EndpointEvents : BroadcastStep(e)

SpecEndpoint == InitEndpoint /\ [][NextEndpoint]_vars

\* The status checks: the upstream's behaviour varies and both variants of
\* get_session_status are applied to it.
InitStatus ==
    /\ InitProcess
    /\ connected = TRUE
    /\ authorized = TRUE
    /\ twoFactor = FALSE
    /\ stConn = "connected"
    /\ stMe = "me"
    /\ session_string = NoString
    /\ session_files = NoFiles
    /\ fresh_opens = TRUE
    /\ clMsg = PlainText
    /\ evt = [e \in Events |-> TextToday]

NextStatus ==
    \/ \E c \in ConnOutcomes, m \in MeOutcomes : SetUpstream(c, m)
    \/ CheckStatusApp
    \/ CheckStatusClient

SpecStatus == InitStatus /\ [][NextStatus]_vars

\* The pull paths: one media request and one listing run while the active
\* channel may be switched.
QueryIds == 1..5

InitQuery ==
    /\ InitProcess
    /\ connected \in BOOLEAN
    /\ authorized = TRUE
    /\ twoFactor = FALSE
    /\ stConn = "connected"
    /\ stMe = "me"
    /\ session_string = NoString
    /\ session_files = NoFiles
    /\ fresh_opens = TRUE
    /\ clMsg = PlainText
    /\ evt = [e \in Events |-> TextToday]

NextQuery ==
    \/ \E id \in QueryIds, full \in BOOLEAN : GmBegin(id, full)
    \/ GmStatus
    \/ GmGetMessages
    \/ GmDownload
    \/ \E f \in BOOLEAN, t \in BOOLEAN : LsBegin(f, t)
    \/ LsStatus
    \/ LsFetch
    \/ LsItemGetMessages
    \/ LsItemDownload
    \/ \E c \in Channels : SwitchBegin(JsonInt(c))
    \/ SwitchStatus

SpecQuery == InitQuery /\ [][NextQuery]_vars

\* Switching: switch requests with every sort of channel_id, the upstream
\* connected or not and the status check answering in every way.
InitSwitch == InitQuery

NextSwitch ==
    \/ \E v \in SwitchInputs : SwitchBegin(v)
    \/ SwitchStatus

SpecSwitch == InitSwitch /\ [][NextSwitch]_vars

\* The session requests: a status check, a reconnect, a code verification
\* and a media request run against an upstream in any condition.
\* The media requests made here: a message with a photo, one without media.
SessionIds == {2, 4}

InitSession ==
    /\ InitProcess
    /\ connected \in BOOLEAN
    /\ authorized \in BOOLEAN
    /\ twoFactor \in BOOLEAN
    /\ stConn \in ConnOutcomes
    /\ stMe \in MeOutcomes
    /\ session_string = NoString
    /\ session_files = NoFiles
    /\ fresh_opens = TRUE
    /\ clMsg = PlainText
    /\ evt = [e \in Events |-> TextToday]

NextSession ==
    \/ RcBegin
    \/ RcDisconnect
    \/ RcConnect
    \/ RcAuthorized
    \/ RcSendCode
    \/ \E code \in BOOLEAN, password \in BOOLEAN : VcBegin(code, password)
    \/ VcSignInCode
    \/ VcSignInPassword
    \/ CheckStatusApp
    \/ \E id \in SessionIds, full \in BOOLEAN : GmBegin(id, full)
    \/ GmStatus
    \/ GmGetMessages
    \/ GmDownload

SpecSession == InitSession /\ [][NextSession]_vars

\* Startup: the client is created from an environment in any condition.
InitCreate ==
    /\ InitProcess
    /\ connected = FALSE
    /\ authorized = FALSE
    /\ twoFactor = FALSE
    /\ stConn = "not_connected"
    /\ stMe = "me"
    /\ session_string \in StringStates
    /\ session_files \in [1..NumSessionFiles -> FileStates]
    /\ fresh_opens \in BOOLEAN
    /\ clMsg = PlainText
    /\ evt = [e \in Events |-> TextToday]

NextCreate == CreateClient

SpecCreate == InitCreate /\ [][NextCreate]_vars

\* Classification: the two classifiers are applied to a message with any
\* combination of attachment properties, file, MIME type and file name.
InitClassify ==
    /\ InitProcess
    /\ connected = TRUE
    /\ authorized = TRUE
    /\ twoFactor = FALSE
    /\ stConn = "connected"
    /\ stMe = "me"
    /\ session_string = NoString
    /\ session_files = NoFiles
    /\ fresh_opens = TRUE
    /\ clMsg \in ClassifyInputs
    /\ evt = [e \in Events |-> TextToday]

NextClassify == Classify

SpecClassify == InitClassify /\ [][NextClassify]_vars

\* ------------------------------------------------------------------ claims
\* Websockets that were delivered the message frame of event e.
Delivered(e) ==
    {w \in WS : \E i \in 1..Len(inbox[w]) : inbox[w][i] = Frame("message", e)}

\* How many message frames of event e websocket w was delivered.
Copies(w, e) ==
    Cardinality({i \in 1..Len(inbox[w]) : inbox[w][i] = Frame("message", e)})

\* The events of the message frames delivered to w, in delivery order.
MessageFrames(w) == SelectSeq(inbox[w], LAMBDA f : f.type = "message")

\* C1: when a broadcast that no other flow disturbed has returned and some
\* of its sends failed, the failing connections are out of the registry and
\* every connection registered when it was called has been sent the message.
C1_FailureIsolation ==
    \A e \in Events :
        hPc[e] = "done" /\ ~bcOther[e] /\ bcFailed[e] # {} =>
            /\ bcFailed[e] \cap Range(active_connections) = {}
            /\ Range(bcStart[e]) \subseteq bcTried[e]

\* C2: when a broadcast in which no send failed has returned, every
\* connection that was registered when it was called, is still registered
\* and has a live transport, has been delivered the message, whatever other
\* flows did to the registry meanwhile.
C2_DeliversToAllRegistered ==
    \A e \in Events :
        hPc[e] = "done" /\ bcFailed[e] = {} =>
            \A w \in Range(bcStart[e]) \cap Range(active_connections) :
                ~clientGone[w] => w \in Delivered(e)

\* C3: a message is delivered only to connections that were registered when
\* its broadcast was called.
C3_NoDeliveryToLateSubscriber ==
    \A e \in Events : Delivered(e) \subseteq Range(bcStart[e])

\* C4: when a broadcast has returned, every connection whose send failed in
\* it is out of the registry; a failing send leaves the broadcast running
\* or returned, never aborted.
C4_FailedSendersRemoved ==
    \A e \in Events :
        /\ hPc[e] = "done" => bcFailed[e] \cap Range(active_connections) = {}
        /\ bcFailed[e] # {} => hPc[e] \in {"send", "done"}

\* A broadcast has returned after one of its sends failed.
C4_Witness ==
    \E e \in Events : hPc[e] = "done" /\ bcFailed[e] # {}

\* C5: a websocket whose status check at connect reported requires_reconnect
\* is never in the registry and is delivered nothing but at most one error
\* frame; when its endpoint returns, it was delivered exactly one error
\* frame and the server has closed it.
C5_RejectedNeverRegistered ==
    \A w \in WS :
        wsFirst[w] = "reconnect" =>
            /\ w \notin Range(active_connections)
            /\ inbox[w] \in {<<>>, <<Frame("error", 0)>>}
            /\ wsPc[w] = "returned" =>
                   inbox[w] = <<Frame("error", 0)>> /\ wsApp[w] = "closed"

\* One rejected websocket got its error frame and was closed; with another
\* the send of the error frame failed and the endpoint fell through to
\* manager.connect.
C5_Witness ==
    \E v, w \in WS :
        /\ wsFirst[v] = "reconnect" /\ wsPc[v] = "returned"
        /\ wsFirst[w] = "reconnect" /\ wsPc[w] = "crashed" /\ wsApp[w] = "accepted"

\* C6: every websocket is delivered message frames in the order the events
\* arrived.
C6_ArrivalOrder ==
    \A w \in WS :
        LET m == MessageFrames(w) IN
        \A i, j \in 1..Len(m) : i < j => m[i].ev < m[j].ev

\* C7: manager.broadcast is called at most once for an event, and no
\* websocket is delivered the message frame of an event twice.
C7_AtMostOnce ==
    /\ \A e \in Events : bcCalls[e] <= 1
    /\ \A w \in WS, e \in Events : Copies(w, e) <= 1

\* A message was delivered to two websockets while the registry changed
\* during the broadcast.
C7_Witness ==
    \E e \in Events :
        hPc[e] = "done" /\ bcOther[e] /\ Cardinality(Delivered(e)) >= 2

\* The event is of the channel and of the day its handler saw at entry.
C8_Passes(e) ==
    /\ evt[e].chat_id = hEntry[e].channel
    /\ evt[e].date # NoDate
    /\ evt[e].date \div HoursPerDay = hEntry[e].today

\* C8: an event whose handler has run was broadcast only if its channel was
\* the active channel and its date the process date when the handler
\* started; otherwise the handler returned without a media call and
\* without a broadcast.
C8_FilterDecidesBroadcast ==
    \A e \in Events :
        hEntry[e].seen =>
            IF C8_Passes(e)
            THEN /\ hPc[e] \in {"get_messages", "download", "send", "done"}
                 /\ hPc[e] \in {"send", "done"} <=> bcCalls[e] = 1
            ELSE /\ hPc[e] = "dropped"
                 /\ bcCalls[e] = 0
                 /\ hChan[e] = 0
                 /\ Delivered(e) = {}

\* An undated event was dropped, and after a channel switch an event of the
\* newly active channel was broadcast.
C8_Witness ==
    \E d, e \in Events :
        /\ hPc[d] = "dropped" /\ evt[d].date = NoDate /\ bcCalls[d] = 0
        /\ hPc[e] = "done" /\ evt[e].chat_id = OtherChannel /\ bcCalls[e] = 1

\* The descriptors handed to callers: by the listener in a broadcast
\* payload, by GET /media/{id} in its response, by GET /messages in the
\* items of its result.
PushDescs == {hData[e].media : e \in {d \in Events : bcCalls[d] > 0}}
PullDescs ==
    (IF gmRes.code = 200 THEN {gmRes.desc} ELSE {})
    \cup {lsItems[i].media : i \in 1..Len(lsItems)}

Inline(descs) == {d \in descs : d.some /\ d.inline}

\* C9: no descriptor returned to a caller holds inline data for an
\* attachment larger than the caller's threshold: 1 MB for the listener,
\* 5 MB for the message listing and for GET /media/{id}, whatever the
\* full_data flag and the kind of the attachment.
C9_InlineWithinThreshold ==
    /\ \A d \in Inline(PushDescs) : d.file_size <= PushLimit
    /\ \A d \in Inline(PullDescs) : d.file_size <= PullLimit

\* The upstream failure class of a status check's input, as documented.
FailureClass(conn, me) ==
    IF conn = "not_connected" THEN "not_connected"
    ELSE IF conn = "raises" THEN "generic"
    ELSE IF me \in {"me", "none"} THEN "none"
    ELSE IF me \in {"AuthKeyUnregisteredError", "AuthKeyDuplicatedError", "AuthKeyError"}
    THEN "invalid_key"
    ELSE IF me = "SessionExpiredError" THEN "expired"
    ELSE IF me = "SessionPasswordNeededError" THEN "two_factor"
    ELSE "generic"

DocumentedStatus(class) ==
    CASE class = "none" -> "active"
      [] class = "not_connected" -> "disconnected"
      [] class \in {"invalid_key", "expired"} -> "expired"
      [] class = "two_factor" -> "password_needed"
      [] OTHER -> "error"

\* C10: a status check maps each upstream failure class to its documented
\* status: not connected to disconnected; an invalidated, duplicated or
\* expired credential to expired with requires_new_login; a two-factor
\* challenge to password_needed with requires_2fa; any other failure to
\* error; and no status outside the five documented ones is returned.
C10_StatusMapping ==
    stRes.impl # "none" =>
        LET st == stRes.rec
            class == FailureClass(stRes.conn, stRes.me)
        IN /\ st.status = DocumentedStatus(class)
           /\ st.status = "expired" => st.requires_new_login
           /\ st.status = "password_needed" => st.requires_2fa
           /\ st.status \in {"active", "disconnected", "expired", "password_needed",
                             "error"}

\* C11: in every dict a status check returns, requires_reconnect is true
\* exactly when the status is not "active".
C11_ReconnectIffNotActive ==
    stRes.impl # "none" =>
        (stRes.rec.requires_reconnect <=> stRes.rec.status # "active")

\* app.py's check answered a key error with a status outside the documented
\* ones, and flagged it.
C11_Witness ==
    /\ stRes.impl = "app"
    /\ stRes.me = "AuthKeyDuplicatedError"
    /\ stRes.rec.status = "auth_error"
    /\ stRes.rec.requires_reconnect

\* Some call in the log ended by raising.
Raised(calls) == \E i \in 1..Len(calls) : calls[i].out = "raise"

StatusValues ==
    {"active", "disconnected", "expired", "auth_error", "password_needed", "error",
     "fatal_error"}

\* C12: whatever the upstream client raises, the status check, the
\* reconnect and the media resolver return a value and let no exception
\* out: the status check a status dict; the reconnect a dict, and after a
\* failed call the reconnect_failed dict; the media resolver None after a
\* failed call, so that GET /media/{id} answers with its own 404.
C12_SessionOpsTotal ==
    /\ stRes.impl # "none" =>
           /\ stRes.rec.status \in StatusValues
           /\ stRes.rec.requires_reconnect \in BOOLEAN
    /\ ~rcRes.escaped
    /\ rcPc = "idle" /\ rcCount > 0 =>
           /\ rcRes.status \in {"code_sent", "reconnected", "reconnect_failed"}
           /\ Raised(rcCalls) <=> rcRes.status = "reconnect_failed"
    /\ gmRes.code \in {0, 200, 401, 404}
    /\ Raised(gmCalls) => gmPc = "idle" /\ gmRes.code = 404

\* is_connected raised in a status check, connect raised in a reconnect
\* and download_media raised in a media request, and all three answered.
C12_Witness ==
    /\ stRes.impl = "app" /\ stRes.conn = "raises" /\ stRes.rec.status = "fatal_error"
    /\ rcPc = "idle" /\ rcCalls # <<>>
    /\ rcCalls[Len(rcCalls)] = Call("connect", "raise")
    /\ rcRes.status = "reconnect_failed"
    /\ gmCalls # <<>> /\ gmCalls[Len(gmCalls)] = Call("download_media", "raise")
    /\ gmRes.code = 404

\* The calls of the log that ran the given operation.
CallsOf(calls, op) == {i \in 1..Len(calls) : calls[i].op = op}

\* The upstream answered the login code of the verify request with the
\* demand for the second factor.
SecondFactorDemanded ==
    \E i \in 1..Len(vcCalls) :
        vcCalls[i] = Call("sign_in_code", "SessionPasswordNeededError")

\* C13: a verify request that carries a code and a password, and whose code
\* the upstream answers with the demand for a second factor, submits the
\* password and returns "verified" with authenticated true.
C13_PasswordCompletesSecondFactor ==
    vcPc = "idle" /\ vcArg.code /\ vcArg.password /\ SecondFactorDemanded =>
        /\ CallsOf(vcCalls, "sign_in_password") # {}
        /\ vcRes.status = "verified"
        /\ vcRes.authenticated

\* C14: a verify request that carries a code and no password, and whose
\* code the upstream answers with the demand for a second factor, returns
\* "password_needed", and it has submitted the code once.
C14_PasswordNeededCodeOnce ==
    /\ Cardinality(CallsOf(vcCalls, "sign_in_code")) <= 1
    /\ vcPc = "idle" /\ vcArg.code /\ ~vcArg.password /\ SecondFactorDemanded =>
           /\ vcRes.status = "password_needed"
           /\ vcRes.requires_password
           /\ Cardinality(CallsOf(vcCalls, "sign_in_code")) = 1
           /\ CallsOf(vcCalls, "sign_in_password") = {}

\* A verify request without a password was answered "password_needed".
C14_Witness ==
    /\ vcPc = "idle" /\ vcArg.code /\ ~vcArg.password /\ SecondFactorDemanded
    /\ vcRes.status = "password_needed"

\* C15: a verify request without a code is answered with a 4xx response,
\* and it makes no sign-in call.
C15_MissingCodeRejected ==
    vcPc = "idle" /\ vcCount > 0 /\ ~vcArg.code =>
        /\ vcRes.http \in 400..499
        /\ vcCalls = <<>>

\* The operations of a call log, in order.
Ops(calls) == [i \in 1..Len(calls) |-> calls[i].op]

IsPrefix(p, q) == Len(p) <= Len(q) /\ \A i \in 1..Len(p) : p[i] = q[i]

\* The last call of a log is c.
EndsWith(calls, c) == calls # <<>> /\ calls[Len(calls)] = c

\* The reconnect called client.connect() and it returned.
Reconnected == \E i \in 1..Len(rcCalls) : rcCalls[i] = Call("connect", "ok")

\* C16, as stated: once a reconnect whose connect went through has
\* returned, it answered "code_sent" exactly if the client is then
\* connected and not authorized, and "reconnected" exactly if it is
\* connected and authorized.
C16_ReconnectOutcome ==
    rcPc = "idle" /\ Reconnected =>
        /\ rcRes.status = "code_sent" <=> connected /\ ~authorized
        /\ rcRes.status = "reconnected" <=> connected /\ authorized

\* The order of a reconnect's upstream calls, with and without the
\* disconnect.
ReconnectOrder(wasConnected) ==
    <<"is_connected">> \o (IF wasConnected THEN <<"disconnect">> ELSE <<>>)
    \o <<"connect", "is_user_authorized", "send_code_request">>

\* C16, amended: a reconnect asks is_connected, disconnects only if the
\* answer was yes, then connects; it answers "code_sent" with requires_code
\* exactly when is_user_authorized said no and its one send_code_request
\* returned, "reconnected" with authenticated exactly when
\* is_user_authorized said yes, and "reconnect_failed" exactly when one of
\* its calls raised.
C16_ReconnectOutcomeUnlessRaised ==
    /\ rcCalls # <<>> =>
           IsPrefix(Ops(rcCalls), ReconnectOrder(rcCalls[1].out = "yes"))
    /\ rcPc = "idle" /\ rcCount > 0 =>
           /\ rcRes.status = "code_sent" <=>
                  EndsWith(rcCalls, Call("send_code_request", "ok"))
           /\ rcRes.status = "code_sent" =>
                  /\ rcRes.requires_code
                  /\ Reconnected
                  /\ Call("is_user_authorized", "no") \in Range(rcCalls)
           /\ rcRes.status = "reconnected" <=>
                  EndsWith(rcCalls, Call("is_user_authorized", "yes"))
           /\ rcRes.status = "reconnected" => rcRes.authenticated /\ Reconnected
           /\ rcRes.status = "reconnect_failed" <=> Raised(rcCalls)

\* A reconnect of a connected client disconnected it, connected again and
\* answered "code_sent".
C16_Witness ==
    /\ rcPc = "idle"
    /\ rcRes.status = "code_sent"
    /\ Ops(rcCalls) = ReconnectOrder(TRUE)

\* The sources in priority order: 0 is the string, 1..NumSessionFiles the
\* session files.  A source validates when it is present, passes its
\* check and a client can be built on it.
Validates(k) ==
    IF k = 0
    THEN /\ session_string.set /\ session_string.b64
         /\ session_string.session = "key" /\ session_string.opens
    ELSE LET f == session_files[k] IN
         /\ f.exists /\ f.readable /\ f.opens
         /\ f.size >= MinSessionBytes /\ f.size <= MaxSessionBytes

ValidSources == {k \in 0..NumSessionFiles : Validates(k)}

\* C17: create_telegram_client returns the client of the first source, in
\* the order string, session files in list order, that validates, marked
\* valid; with no valid source it returns a new client that requires
\* login, or raises RuntimeError if that client cannot be built.
C17_FirstValidSource ==
    created.done =>
        LET res == created.res IN
        IF ValidSources = {}
        THEN /\ res.source \in {"new", "none"}
             /\ res.source = "new" <=> fresh_opens
             /\ res.source = "new" => res.requires_login /\ ~res.session_valid
             /\ res.raised <=> ~fresh_opens
        ELSE LET k == CHOOSE j \in ValidSources : \A i \in ValidSources : j <= i IN
             /\ ~res.raised /\ res.session_valid /\ ~res.requires_login
             /\ res.source = IF k = 0 THEN "environment_string" ELSE "file"
             /\ res.file = k

\* The string was present but held no auth key, the first file was one byte
\* too small, the second one byte too large, and the third was used.
C17_Witness ==
    /\ created.done
    /\ session_string.set /\ session_string.session = "no_key"
    /\ session_files[1].exists /\ session_files[1].size = MinSessionBytes - 1
    /\ session_files[2].exists /\ session_files[2].size = MaxSessionBytes + 1
    /\ created.res.source = "file" /\ created.res.file = 3

\* The integer a channel_id value sent as a JSON integer stands for.
Supplied(v) == v.num

\* The values the active channel has held: the default, then the channel
\* id of every switch answered 200.
Held == {DEFAULT_CHANNEL} \cup {Supplied(v) : v \in Range(swLog)}

\* The channel values the pull requests have read: the media request for
\* its media call, the listing for its fetch and for the media call of the
\* message its loop is at (0: not read).
ChannelReads == {gmChan, lsArg.from, lsChan} \ {0}

\* C18: the active channel is the default until the first switch answers
\* and the id of the last answered switch after; a request reading it
\* while switches run sees the default or the id of an answered switch,
\* never another value.
C18_ChannelSwitchAtomic ==
    /\ current_channel =
           IF swLog = <<>> THEN DEFAULT_CHANNEL ELSE Supplied(swLog[Len(swLog)])
    /\ ChannelReads \subseteq Held

\* Two switches were answered, and a listing that fetched from the default
\* channel read the other channel for a media call of its loop.
C18_Witness ==
    /\ Len(swLog) = 2
    /\ lsArg.from = DEFAULT_CHANNEL
    /\ lsChan = OtherChannel

\* The status check of a pull request reported requires_reconnect.
Refused(calls) == \E i \in 1..Len(calls) : calls[i] = Call("status", "reconnect")

\* A step in which a switch request got its answer.
SwitchAnswers == swPc' = "idle" /\ (swPc = "status" \/ swCount' # swCount)

\* C19: a media request or a listing whose status check reported
\* requires_reconnect is over with 401, has made no upstream call after
\* the check and has read no channel and built no item; a switch request
\* whose check reported it is answered 401 in a step that leaves the active
\* channel as it was.
C19_ReconnectRefusesQueries ==
    /\ [](Refused(gmCalls) =>
            /\ gmPc = "idle"
            /\ gmRes.code = 401
            /\ Ops(gmCalls) = <<"status">>
            /\ gmChan = 0)
    /\ [](Refused(lsCalls) =>
            /\ lsPc = "idle"
            /\ lsCode = 401
            /\ Ops(lsCalls) = <<"status">>
            /\ lsArg.from = 0
            /\ lsItems = <<>>)
    /\ [][SwitchAnswers /\ swRes'.checked = "reconnect" =>
            /\ swRes'.code = 401
            /\ current_channel' = current_channel
            /\ swLog' = swLog]_vars

\* A media request, a listing and a switch were each refused after their
\* status check raised, while an earlier switch had changed the channel.
C19_Witness ==
    /\ connected
    /\ Refused(gmCalls)
    /\ Refused(lsCalls)
    /\ swPc = "idle"
    /\ swRes.checked = "reconnect"
    /\ current_channel = OtherChannel

\* The positions of the frames of a type in what a client has received.
FramesOf(w, type) == {i \in 1..Len(inbox[w]) : inbox[w][i].type = type}

\* C20: a client whose first status check let it in and that has received
\* anything has received exactly one connection frame, as its first frame;
\* so every message frame it has received came after the connection frame.
C20_ConnectionFrameFirst ==
    \A w \in WS :
        wsFirst[w] = "active" /\ inbox[w] # <<>> =>
            /\ FramesOf(w, "connection") = {1}
            /\ \A i \in FramesOf(w, "message") : i > 1

\* A broadcast reached a client while its endpoint was still parked at the
\* send of the connection frame: the message frame is the second frame.
C20_Witness ==
    \E w \in WS :
        /\ wsFirst[w] = "active"
        /\ wsPc[w] = "conn_send"
        /\ Len(inbox[w]) = 2
        /\ inbox[w][1].type = "connection"
        /\ inbox[w][2].type = "message"

\* C21: a status dict that says "active" says authenticated, and one that
\* says "active" or authenticated carries the id of the user, whichever
\* variant of the check built it and also when get_me returned None.
C21_AuthenticatedHasIdentity ==
    stRes.impl # "none" =>
        LET st == stRes.rec IN
        /\ st.status = "active" => st.authenticated
        /\ st.status = "active" \/ st.authenticated => st.user_id # NoUser

\* The media call of event e ended with the call c.
MediaCallEnded(e, c) == hCalls[e] # <<>> /\ hCalls[e][Len(hCalls[e])] = c

\* The media call of event e found nothing to deliver: the message or its
\* media was absent, or the download returned nothing.
NothingToDeliver(e) ==
    \/ MediaCallEnded(e, Call("get_messages", "absent"))
    \/ MediaCallEnded(e, Call("download_media", "nothing"))

\* C22: when the media call of an event finds the message or its media
\* absent, or its download returns nothing, the listener broadcasts the
\* event's message all the same, once, with has_media set and the
\* "media_data" key holding None.
C22_MissingMediaOmitted ==
    \A e \in Events :
        NothingToDeliver(e) =>
            /\ hPc[e] \in {"send", "done"}
            /\ bcCalls[e] = 1
            /\ hData[e].id = evt[e].id
            /\ hData[e].has_media
            /\ hData[e].media_key
            /\ hData[e].media = NoneDesc

\* The download of an event's photo returned nothing and the client
\* received the event's message frame.
C22_Witness ==
    \E e \in Events :
        /\ MediaCallEnded(e, Call("download_media", "nothing"))
        /\ hData[e].type = "photo"
        /\ \E w \in WS : Frame("message", e) \in Range(inbox[w])

\* The registry without the connection w, the others in their order.
Without(reg, w) == SelectSeq(reg, LAMBDA x : x # w)

\* A step in which manager.disconnect(w) is called: by the except branches
\* of w's endpoint, or by a broadcast whose send to w raised.
DisconnectCalled(w) ==
    \/ /\ wsPc[w] \in {"conn_send", "st_send", "pong_send", "recv"}
       /\ wsPc'[w] = "returned"
    \/ \E e \in Events : w \in bcFailed'[e] \ bcFailed[e]

\* C23: a call of manager.disconnect(w) leaves the registry as it was when
\* w is not registered, and otherwise removes w and nothing else, the
\* other connections keeping their order; the registry never holds a
\* connection twice.
C23_DisconnectIdempotent ==
    [][\A w \in WS :
         DisconnectCalled(w) =>
             /\ active_connections' = Without(active_connections, w)
             /\ w \notin Range(active_connections) =>
                    active_connections' = active_connections
             /\ Cardinality(Range(active_connections')) = Len(active_connections')]_vars

\* The endpoint of a connection has left and a broadcast's send to it has
\* failed, so disconnect was called for it twice, and another connection
\* is still registered.
C23_Witness ==
    \E w \in WS :
        /\ wsPc[w] = "returned"
        /\ wsFirst[w] = "active"
        /\ \E e \in Events : w \in bcFailed[e]
        /\ \E v \in WS \ {w} : v \in Range(active_connections)

\* The endpoint handler of w is over: it returned, or manager.connect
\* raised out of it.
Terminated(w) == wsPc[w] \in {"returned", "crashed"}

\* The endpoint of w is inside its try block, parked at a unicast send or
\* at ws.receive_text().
InTry(w) == wsPc[w] \in {"conn_send", "st_send", "pong_send", "recv"}

\* C24: the step in which the endpoint of a connection learns of a failed
\* unicast send or of the client's disconnect at its receive ends the
\* handler with the connection out of the registry; and a connection whose
\* endpoint handler is over is not in the registry.
C24_TerminatedNotRegistered ==
    /\ [][\A w \in WS :
            InTry(w) /\ wsPc'[w] # wsPc[w] /\ (~wsOk[w] \/ (wsPc[w] = "recv" /\ clientGone[w]))
                => Terminated(w)' /\ w \notin Range(active_connections')]_vars
    /\ [](\A w \in WS : Terminated(w) => w \notin Range(active_connections))

\* A client that was registered and answered a command dropped; its
\* endpoint returned from the receive; another client is still registered.
C24_Witness ==
    \E w \in WS :
        /\ wsPc[w] = "returned"
        /\ clientGone[w]
        /\ cmds[w] > 0
        /\ \E i \in 1..Len(inbox[w]) : inbox[w][i].type = "pong"
        /\ \E v \in WS \ {w} : v \in Range(active_connections)

\* The descriptors of the items a listing has built.
ListDescs == {lsItems[i].media : i \in 1..Len(lsItems)}

\* C25: a descriptor the listener broadcasts holds inline data only for an
\* attachment smaller than 1 MB, and one a listing returns only for an
\* attachment smaller than 5 MB: at exactly the threshold the descriptor is
\* a reference.
C25_InlineStrictlyBelow ==
    /\ \A d \in Inline(PushDescs) : d.file_size < PushLimit
    /\ \A d \in Inline(ListDescs) : d.file_size < PullLimit

\* The attachment properties in their order of precedence, and the kind
\* and the fixed MIME type each stands for ("": it has none of its own).
Precedence == <<"photo", "video", "gif", "voice", "audio", "sticker", "poll", "document">>

KindOf(flag) == IF flag = "document" THEN "file" ELSE flag

FixedMime(flag) ==
    CASE flag = "photo" -> "image/jpeg"
      [] flag = "video" -> "video/mp4"
      [] flag = "gif" -> "image/gif"
      [] flag = "voice" -> "audio/ogg"
      [] flag = "audio" -> "audio/mpeg"
      [] flag = "sticker" -> "image/webp"
      [] OTHER -> NoMime

\* The first property of the set, in the order of precedence.
Leading(flags) ==
    Precedence[CHOOSE i \in 1..Len(Precedence) :
                  /\ Precedence[i] \in flags
                  /\ \A j \in 1..(i - 1) : Precedence[j] \notin flags]

\* C26: the kind of a message is "text" when it has no attachment property
\* and otherwise the kind of its first property in the order photo, video,
\* gif, voice, audio, sticker, poll, document; its MIME type is the file's
\* own when it has one, else the fixed type of its first property when that
\* has one, else the type looked up for the lower-cased suffix of the file
\* name when the message has a document, else application/octet-stream.
C26_ClassifyPrecedence ==
    clOut.done =>
        LET flags == clMsg.flags
            explicit == clMsg.hasFile /\ clMsg.mime_type # NoMime
        IN /\ clOut.kind = (IF flags = {} THEN "text" ELSE KindOf(Leading(flags)))
           /\ clOut.kind \in {"photo", "video", "gif", "voice", "audio", "sticker",
                              "poll", "file", "text"}
           /\ clOut.mime =
                (IF explicit THEN clMsg.mime_type
                 ELSE IF flags # {} /\ FixedMime(Leading(flags)) # NoMime
                 THEN FixedMime(Leading(flags))
                 ELSE IF "document" \in flags
                 THEN (IF ~clMsg.hasFile \/ clMsg.name = NoName
                       THEN "application/octet-stream"
                       ELSE IF clMsg.name \in {"a.pdf", "B.PDF"} THEN "application/pdf"
                       ELSE IF clMsg.name = "c.Jpg" THEN "image/jpeg"
                       ELSE "application/octet-stream")
                 ELSE "application/octet-stream")

\* A video that is also a document, with an upper-case file name and no
\* MIME type of its own, was classified as a video with the video type.
C26_Witness ==
    /\ clOut.done
    /\ clMsg.flags = {"video", "document"}
    /\ clMsg.hasFile
    /\ clMsg.mime_type = NoMime
    /\ clMsg.name = "B.PDF"
    /\ clOut.kind = "video"
    /\ clOut.mime = "video/mp4"

\* The events the listener has handed to manager.broadcast.
Broadcast == {e \in Events : bcCalls[e] > 0}

\* C27: the payload of every event the listener broadcast says has_media
\* exactly when the event's message has media, carries the "media_data" key
\* exactly then, and has the type "text" when the message has no media.
C27_DescriptorIffAttachment ==
    \A e \in Broadcast :
        LET msg == Upstream(evt[e].chat_id, evt[e].id) IN
        /\ hData[e].has_media <=> msg.media
        /\ hData[e].media_key <=> hData[e].has_media
        /\ ~hData[e].has_media => hData[e].type = "text" /\ hData[e].media = NoneDesc

\* A text message and a message with a photo were both broadcast, the
\* first without the key and the second with a descriptor.
C27_Witness ==
    \E d, e \in Broadcast :
        /\ ~hData[d].has_media /\ ~hData[d].media_key
        /\ hData[e].has_media /\ hData[e].media_key /\ hData[e].media.some

\* How many frames of a type a client has received, and how many times its
\* receive loop has read a text.
Count(w, type) == Cardinality(FramesOf(w, type))
Received(w, data) == Cardinality({i \in 1..Len(cmdLog[w]) : cmdLog[w][i] = data})

\* The unicast frames a client is owed once its endpoint waits in the
\* receive loop: the connection frame, the first session_status frame, and
\* the answers to its commands.
Owed(w, type) ==
    CASE type = "pong" -> Received(w, "ping")
      [] type = "session_status" -> 1 + Received(w, "session_status")
      [] type = "connection" -> 1
      [] OTHER -> 0

\* C28: a client has received one pong for every "ping" its endpoint read;
\* when its endpoint waits in the receive loop it has received one
\* session_status frame for every "session_status" it sent besides the one
\* sent at connect, and never more; a text that is neither has added no
\* frame; and the step that reads a text changes neither the registry nor
\* the active channel.
C28_CommandsAnswered ==
    /\ [](\A w \in WS :
            /\ Count(w, "pong") = Owed(w, "pong")
            /\ Count(w, "session_status") <= Owed(w, "session_status")
            /\ wsPc[w] = "recv" =>
                   \A type \in {"pong", "session_status", "connection", "error"} :
                       Count(w, type) = Owed(w, type))
    /\ [][cmdLog' # cmdLog =>
            /\ active_connections' = active_connections
            /\ current_channel' = current_channel]_vars

\* One client was answered a pong and another a second session_status
\* frame, and both endpoints are back in their receive loops.
C28_Witness ==
    \E v, w \in WS :
        /\ cmdLog[v] = <<"ping">> /\ wsPc[v] = "recv" /\ Count(v, "pong") = 1
        /\ cmdLog[w] = <<"session_status">> /\ wsPc[w] = "recv"
        /\ Count(w, "session_status") = 2
        /\ Count(w, "pong") = 0

\* C29: the media call of an event reads the channel the event passed the
\* channel filter for, and the descriptor broadcast with the event is that
\* of the event's own message, whatever channel is active by the time the
\* fetch and the download return.
C29_MediaFromFilteredChannel ==
    \A e \in Events :
        LET msg == Upstream(evt[e].chat_id, evt[e].id) IN
        /\ hChan[e] # 0 => hChan[e] = evt[e].chat_id /\ hChan[e] = hEntry[e].channel
        /\ bcCalls[e] > 0 /\ hData[e].media.some =>
               /\ hData[e].media.type = detect_media_type(msg)
               /\ hData[e].media.file_size = FileSize(msg)

\* The active channel was switched while the media call of an event of the
\* default channel was in flight: a later event, of the other channel, was
\* delivered before it; the first event was then delivered with the
\* descriptor of its photo.
C29_Witness ==
    \E w \in WS, d, e \in Events :
        /\ e < d
        /\ evt[e].chat_id = DEFAULT_CHANNEL
        /\ evt[d].chat_id = OtherChannel
        /\ hData[e].media.some
        /\ hData[e].media.type = "photo"
        /\ \E i, j \in 1..Len(inbox[w]) :
              /\ i < j
              /\ inbox[w][i] = Frame("message", d)
              /\ inbox[w][j] = Frame("message", e)

\* A step in which a media request issues its upstream fetch: its status
\* check has answered and client.get_messages is called.
FetchIssued == gmPc = "status" /\ gmPc' = "get_messages"

\* C30: a media request issues its upstream fetch only while the client is
\* connected, whatever a reconnect request running beside it does between
\* the request's status check and the fetch.
C30_FetchWhileConnected == [][FetchIssued => connected]_vars

\* The channel_id of a request stands for an integer: a JSON integer or a
\* string of one.
IsInteger(v) == v.form \in {"int", "str"} /\ v.den = 1

\* The channel_id of a request is one int() raises for: missing, null, a
\* string that is not an integer literal.
Unconvertible(v) ==
    v.form \in {"text", "null", "missing"} \/ (v.form = "str" /\ v.den # 1)

\* C31 as stated: a switch answered 401, or whose channel_id is missing or
\* not an integer, leaves the active channel as it was; any other switch
\* succeeds and makes the active channel the supplied id, known to the
\* upstream or not.
C31_SwitchOnlyOnSuccess ==
    [][SwitchAnswers =>
         /\ swRes'.code = 401 \/ ~IsInteger(swArg') =>
                current_channel' = current_channel
         /\ swRes'.code # 401 /\ IsInteger(swArg') =>
                swRes'.code = 200 /\ current_channel' = swArg'.num]_vars

\* C31, amended: a switch answered 401, or whose channel_id is one int()
\* raises for (missing, null, a string that is not an integer literal),
\* leaves the active channel as it was and is not answered 200; any other
\* switch is answered 200 and makes the active channel the supplied number
\* with its fraction cut off, known to the upstream or not.
C31_SwitchOnlyWhenConverted ==
    [][SwitchAnswers =>
         /\ swRes'.code = 401 \/ Unconvertible(swArg') =>
                /\ current_channel' = current_channel
                /\ swRes'.code \in {401, 500}
         /\ swRes'.code # 401 /\ ~Unconvertible(swArg') =>
                /\ swRes'.code = 200
                /\ current_channel' = Trunc(swArg'.num, swArg'.den)]_vars

\* A switch to a channel the upstream does not know was answered 200, and
\* a later switch without a channel_id failed and left that channel active.
C31_Witness ==
    /\ swCount = 2
    /\ swPc = "idle"
    /\ swLog = <<JsonInt(UnknownChannel)>>
    /\ swArg.form = "missing"
    /\ swRes.code = 500
    /\ current_channel = UnknownChannel

====
